---- MODULE Spec2Model ----
(***************************************************************************)
(* Model of the company-research backend, src/backend/utils/api_helpers.py: *)
(* the HTTP wrapper, the source adapters and the research aggregator.      *)
(*                                                                         *)
(* Strings are sequences of one-character strings, so that lower(),        *)
(* strip(), split(), replace() and the substring test are computed as      *)
(* Python computes them.  Provider documents carry text fields as strings. *)
(***************************************************************************)
EXTENDS Integers, Sequences, FiniteSets, TLC

VARIABLES
    pc,              \* position of research_company_thoroughly
    results,         \* its `results` dict
    website,         \* its local `website`
    domain,          \* its local `domain`
    website_content, \* its local `website_content`
    calls,           \* adapters called so far, with the name each was keyed on
    arg,             \* argument of the function under test (function specs)
    ret,             \* its return value, NotCalled before the call
    heap             \* the list objects made by the requests (SpecTwice)

vars == <<pc, results, website, domain, website_content, calls, arg, ret, heap>>

(***************************************************************************)
(* Python strings                                                          *)
(***************************************************************************)
Empty == <<>>

Truthy(s) == Len(s) > 0

UpperCase ==
    [A |-> "a", B |-> "b", C |-> "c", D |-> "d", E |-> "e", F |-> "f", G |-> "g",
     H |-> "h", I |-> "i", J |-> "j", K |-> "k", L |-> "l", M |-> "m", N |-> "n",
     O |-> "o", P |-> "p", Q |-> "q", R |-> "r", S |-> "s", T |-> "t", U |-> "u",
     V |-> "v", W |-> "w", X |-> "x", Y |-> "y", Z |-> "z"]

LowerChar(c) == IF c \in DOMAIN UpperCase THEN UpperCase[c] ELSE c

\* str.lower()
Lower(s) == [i \in 1..Len(s) |-> LowerChar(s[i])]

IsSpace(c) == c = " "

RECURSIVE LStrip(_)
LStrip(s) == IF s # <<>> /\ IsSpace(Head(s)) THEN LStrip(Tail(s)) ELSE s

RECURSIVE RStrip(_)
RStrip(s) ==
    IF s # <<>> /\ IsSpace(s[Len(s)]) THEN RStrip(SubSeq(s, 1, Len(s) - 1)) ELSE s

\* str.strip()
Strip(s) == RStrip(LStrip(s))

\* sub in s
Contains(sub, s) ==
    \E i \in 1..(Len(s) - Len(sub) + 1) : SubSeq(s, i, i + Len(sub) - 1) = sub

\* s.startswith(p)
StartsWith(s, p) == Len(s) >= Len(p) /\ SubSeq(s, 1, Len(p)) = p

\* s.replace(old, new), old non-empty: leftmost non-overlapping occurrences
RECURSIVE Replace(_, _, _)
Replace(s, old, new) ==
    IF Len(s) < Len(old) THEN s
    ELSE IF SubSeq(s, 1, Len(old)) = old
         THEN new \o Replace(SubSeq(s, Len(old) + 1, Len(s)), old, new)
         ELSE <<Head(s)>> \o Replace(Tail(s), old, new)

\* s.split(sep)[0], sep one character
RECURSIVE SplitFirst(_, _)
SplitFirst(s, sep) ==
    IF s = <<>> \/ Head(s) = sep THEN <<>>
    ELSE <<Head(s)>> \o SplitFirst(Tail(s), sep)

\* len(s.split()): whitespace-separated words
WordCount(s) ==
    Cardinality({i \in 1..Len(s) :
                    ~IsSpace(s[i]) /\ (i = Len(s) \/ IsSpace(s[i + 1]))})

IsPrefix(s, t) == Len(s) <= Len(t) /\ SubSeq(t, 1, Len(s)) = s

(***************************************************************************)
(* HTTP wrapper: _safe_get / _safe_post                                    *)
(***************************************************************************)
RETRY_COUNT == 2
RETRY_BACKOFF_MS == 500

None == [kind |-> "None"]
Response(body) == [kind |-> "Response", body |-> body]
NotCalled == [kind |-> "NotCalled"]

\* what one attempt of requests.get / requests.post does
ErrorKinds == {"timeout", "connection_error", "http_error"}
Ok(body) == [ok |-> TRUE, body |-> body]
Err(kind) == [ok |-> FALSE, err |-> kind]

\* `except Exception` catches every error the request raises
CaughtNarrow(err) == err = "timeout"
Caught(err) == err \in ErrorKinds

\* the loop `for attempt in range(RETRY_COUNT)` from `attempt` on; outs[k] is
\* what the k-th attempt does.  attempts: number of requests sent; sleeps: the
\* backoff delays slept, in ms.
RECURSIVE SafeLoopSleepy(_, _, _, _)
SafeLoopSleepy(outs, attempt, attempts, sleeps) ==
    IF attempt >= RETRY_COUNT
    THEN [ret |-> None, raised |-> FALSE, attempts |-> attempts, sleeps |-> sleeps]
    ELSE LET o == outs[attempt + 1] IN
         IF o.ok
         THEN [ret |-> Response(o.body), raised |-> FALSE,
               attempts |-> attempts + 1, sleeps |-> sleeps]
         ELSE SafeLoopSleepy(outs, attempt + 1, attempts + 1,
                             Append(sleeps, RETRY_BACKOFF_MS * (attempt + 1)))

RECURSIVE SafeLoopEager(_, _, _, _)
SafeLoopEager(outs, attempt, attempts, sleeps) ==
    IF attempt >= RETRY_COUNT + 1
    THEN [ret |-> None, raised |-> FALSE, attempts |-> attempts, sleeps |-> sleeps]
    ELSE LET o == outs[attempt + 1] IN
         IF o.ok
         THEN [ret |-> Response(o.body), raised |-> FALSE,
               attempts |-> attempts + 1, sleeps |-> sleeps]
         ELSE SafeLoopEager(outs, attempt + 1, attempts + 1,
                            Append(sleeps, RETRY_BACKOFF_MS * (attempt + 1)))

RECURSIVE SafeLoop(_, _, _, _)
SafeLoop(outs, attempt, attempts, sleeps) ==
    IF attempt >= RETRY_COUNT
    THEN [ret |-> None, raised |-> FALSE, attempts |-> attempts, sleeps |-> sleeps]
    ELSE LET o == outs[attempt + 1] IN
         IF o.ok
         THEN [ret |-> Response(o.body), raised |-> FALSE,
               attempts |-> attempts + 1, sleeps |-> sleeps]
         ELSE IF ~Caught(o.err)
         THEN [ret |-> None, raised |-> TRUE,
               attempts |-> attempts + 1, sleeps |-> sleeps]
         ELSE IF attempt < RETRY_COUNT - 1
         THEN SafeLoop(outs, attempt + 1, attempts + 1,
                       Append(sleeps, RETRY_BACKOFF_MS * (attempt + 1)))
         ELSE [ret |-> None, raised |-> FALSE,
               attempts |-> attempts + 1, sleeps |-> sleeps]

_safe_get(outs) == SafeLoop(outs, 0, 0, <<>>)

_safe_post(outs) == SafeLoop(outs, 0, 0, <<>>)

\* one call of _safe_get or _safe_post as its caller's record keeps it: the
\* requests sent and the backoff delays slept
Sent(http) == <<[attempts |-> http.attempts, sleeps |-> http.sleeps]>>

\* `if not resp`
Failed(resp) == resp.kind = "None"

(***************************************************************************)
(* Function specifications: the function under test is called once on an   *)
(* argument drawn by Init; the aggregator's variables stay idle.           *)
(***************************************************************************)
Idle ==
    /\ pc = "idle"
    /\ results = [company_name |-> Empty]
    /\ website = Empty
    /\ domain = Empty
    /\ website_content = Empty
    /\ calls = <<>>
    /\ heap = <<>>

IdleUnchanged ==
    UNCHANGED <<pc, results, website, domain, website_content, calls, heap>>

Called == ret # NotCalled

(***************************************************************************)
(* SpecHttp: one call of _safe_get or _safe_post                           *)
(***************************************************************************)
WorldAttempts == 3

\* outs: what the remote end does on each attempt, should it be made
InitHttp ==
    LET HttpBodies == {"page1", "page2"}
        AttemptOutcomes == {Ok(b) : b \in HttpBodies} \cup {Err(e) : e \in ErrorKinds}
    IN  /\ Idle
        /\ arg \in [fn : {"_safe_get", "_safe_post"},
                     outs : [1..WorldAttempts -> AttemptOutcomes]]
        /\ ret = NotCalled

CallSafeGet ==
    /\ ret = NotCalled
    /\ arg.fn = "_safe_get"
    /\ ret' = _safe_get(arg.outs)
    /\ UNCHANGED arg
    /\ IdleUnchanged

CallSafePost ==
    /\ ret = NotCalled
    /\ arg.fn = "_safe_post"
    /\ ret' = _safe_post(arg.outs)
    /\ UNCHANGED arg
    /\ IdleUnchanged

NextHttp == CallSafeGet \/ CallSafePost

SpecHttp == InitHttp /\ [][NextHttp]_vars

\* index of the first attempt among the first n that succeeds, 0 if none
FirstOk(outs, n) ==
    IF \E k \in 1..n : outs[k].ok
    THEN CHOOSE k \in 1..n : outs[k].ok /\ \A j \in 1..(k - 1) : ~outs[j].ok
    ELSE 0

\* C2: one call of the HTTP wrapper sends at most 2 requests; it returns the
\* response of the first attempt that succeeds and sends nothing after it; it
\* sends a further request only after a failed one; after the 2nd failed
\* attempt it returns None; no exception of the request reaches the caller.
C2_AtMostTwoAttempts ==
    Called =>
        LET k == FirstOk(arg.outs, 2) IN
        /\ ~ret.raised
        /\ ret.attempts \in 1..2
        /\ k # 0 => ret.ret = Response(arg.outs[k].body) /\ ret.attempts = k
        /\ k = 0 => ret.ret = None /\ ret.attempts = 2
        /\ Len(ret.sleeps) = ret.attempts - 1

\* a retry happened and succeeded
C2_Witness ==
    /\ Called
    /\ ~arg.outs[1].ok
    /\ arg.outs[2].ok
    /\ ret.ret = Response(arg.outs[2].body)

(***************************************************************************)
(* fetch_duckduckgo_summary                                                *)
(***************************************************************************)
WordLimit == 20

company_indicators ==
    << <<"c","o","m","p","a","n","y">>, <<"s","t","a","r","t","u","p">>,
       <<"t","e","c","h">>, <<"b","u","s","i","n","e","s","s">>,
       <<"i","n","c">>, <<"c","o","r","p">>, <<"l","t","d">>,
       <<"f","o","u","n","d","e","r">>, <<"C","E","O">>,
       <<"v","e","n","t","u","r","e">> >>

\* the text contains one of the keywords, in whatever case
AnyIndicatorFolded(text) ==
    \E i \in 1..Len(company_indicators) :
        Contains(Lower(company_indicators[i]), Lower(text))

\* any(indicator in text.lower() for indicator in company_indicators)
AnyIndicator(text) ==
    \E i \in 1..Len(company_indicators) : Contains(company_indicators[i], Lower(text))

\* a or b
OrElse(a, b) == IF Truthy(a) THEN a ELSE b

\* lines 311-317: the primary text, or "" when it reads as a definition
FilterPrimary(summary) ==
    IF Truthy(summary) /\ ~AnyIndicator(summary) /\ WordCount(summary) > WordLimit
    THEN Empty
    ELSE summary

\* lines 322-329: the loop over RelatedTopics.  `bound` says whether the local
\* company_indicators was assigned (line 312 runs only inside `if summary:`);
\* reading it unassigned raises UnboundLocalError.
RECURSIVE ScanRelated(_, _)
ScanRelated(related, bound) ==
    IF related = <<>> THEN [raised |-> FALSE, value |-> Empty]
    ELSE LET r == Head(related)
             t == IF r.dict THEN OrElse(r.Text, r.Result) ELSE Empty
         IN  IF ~r.dict \/ ~Truthy(t) THEN ScanRelated(Tail(related), bound)
             ELSE IF ~bound THEN [raised |-> TRUE, value |-> Empty]
             ELSE IF AnyIndicator(t) THEN [raised |-> FALSE, value |-> t]
             ELSE ScanRelated(Tail(related), bound)

\* lines 304-330: the body of the try block
DdgTry(resp) ==
    IF Failed(resp) THEN [raised |-> FALSE, value |-> Empty]
    ELSE IF resp.body.kind # "json" THEN [raised |-> TRUE, value |-> Empty]
    ELSE LET data == resp.body
             primary == OrElse(data.AbstractText, data.Heading)
             summary == FilterPrimary(primary)
         IN  IF Truthy(summary) THEN [raised |-> FALSE, value |-> summary]
             ELSE ScanRelated(data.RelatedTopics, Truthy(primary))

\* the whole body, the request included, is inside `try`; line 331 turns any
\* exception into ""
fetch_duckduckgo_summary(company, outs) ==
    LET http == _safe_get(outs)
        body == DdgTry(http.ret)
    IN  [raised |-> FALSE,
         value |-> IF http.raised \/ body.raised THEN Empty ELSE body.value,
         attempts |-> http.attempts, sent |-> Sent(http)]

(***************************************************************************)
(* SpecDDG: one call of fetch_duckduckgo_summary                           *)
(***************************************************************************)
RECURSIVE Filler(_)
Filler(n) == IF n = 0 THEN <<>> ELSE <<" ", "x">> \o Filler(n - 1)

\* a text of 1 + n words that starts with `word`
TextOf(word, n) == word \o Filler(n)

FirstWords ==
    { <<"x">>, <<"I","n","c">>, <<"C","E","O">>, <<"t","e","c","h","y">> }

ExtraWords == {0, WordLimit - 1, WordLimit, WordLimit + 1}

BadJson == [kind |-> "badjson"]

RelatedEntries ==
    { [dict |-> FALSE],
      [dict |-> TRUE, Text |-> Empty, Result |-> Empty],
      [dict |-> TRUE, Text |-> <<"y">>, Result |-> Empty],
      [dict |-> TRUE, Text |-> <<"y"," ","i","n","c">>, Result |-> Empty],
      [dict |-> TRUE, Text |-> <<"C","o","r","p"," ","z">>, Result |-> Empty],
      [dict |-> TRUE, Text |-> Empty, Result |-> <<"l","t","d">>] }

MaxRelated == 2

SeqsUpTo(S, n) == UNION {[1..k -> S] : k \in 0..n}

DdgBodies ==
    LET PrimaryTexts == {Empty} \cup {TextOf(w, n) : w \in FirstWords, n \in ExtraWords}
        Headings == {Empty, <<"H">>, <<"L","t","d">>}
    IN  {BadJson} \cup
        [kind : {"json"}, AbstractText : PrimaryTexts, Heading : Headings,
         RelatedTopics : SeqsUpTo(RelatedEntries, MaxRelated)]

\* the remote end answers every attempt alike, or fails once and then answers
Replies(bodies) ==
    {[k \in 1..WorldAttempts |-> Ok(b)] : b \in bodies}
    \cup {[k \in 1..WorldAttempts |-> Err(e)] : e \in ErrorKinds}
    \cup {[k \in 1..WorldAttempts |-> IF k = 1 THEN Err("timeout") ELSE Ok(b)] :
            b \in bodies}

InitDDG ==
    /\ Idle
    /\ arg \in [fn : {"fetch_duckduckgo_summary"}, company : {<<"a">>},
                 outs : Replies(DdgBodies)]
    /\ ret = NotCalled

CallDDG ==
    /\ ret = NotCalled
    /\ arg.fn = "fetch_duckduckgo_summary"
    /\ ret' = fetch_duckduckgo_summary(arg.company, arg.outs)
    /\ UNCHANGED arg
    /\ IdleUnchanged

NextDDG == CallDDG

SpecDDG == InitDDG /\ [][NextDDG]_vars

\* the provider answered the first attempt with a JSON document
DdgAnswered == Called /\ arg.outs[1].ok /\ arg.outs[1].body.kind = "json"

DdgData == arg.outs[1].body

DdgPrimary == OrElse(DdgData.AbstractText, DdgData.Heading)

EntryText(r) == IF r.dict THEN OrElse(r.Text, r.Result) ELSE Empty

\* C6: with an empty primary field (no AbstractText, no Heading) and a
\* RelatedTopics entry whose text contains a business-indicator keyword, the
\* adapter returns the text of the first such entry.
C6_RelatedTopicUsed ==
    (/\ DdgAnswered
     /\ DdgPrimary = Empty
     /\ \E i \in 1..Len(DdgData.RelatedTopics) :
            AnyIndicatorFolded(EntryText(DdgData.RelatedTopics[i])))
    => LET rel == DdgData.RelatedTopics
           i == CHOOSE i \in 1..Len(rel) :
                    /\ AnyIndicatorFolded(EntryText(rel[i]))
                    /\ \A j \in 1..(i - 1) : ~AnyIndicatorFolded(EntryText(rel[j]))
       IN  ret.value = EntryText(rel[i])

\* C7: the primary text is dropped exactly when it contains none of the
\* indicator keywords (CEO among them) and has more than 20 words; a text of
\* at most 20 words, or with a keyword, is returned as it is.
C7_DiscardedIffGenericAndLong ==
    (DdgAnswered /\ Truthy(DdgPrimary))
    => LET discard == ~AnyIndicatorFolded(DdgPrimary) /\ WordCount(DdgPrimary) > 20
       IN  (ret.value = DdgPrimary) <=> ~discard

(***************************************************************************)
(* fetch_brandfetch_data / fetch_brandfetch_data_enhanced                  *)
(***************************************************************************)
\* Python dicts are functions from keys; {} is the function with no key
EmptyDict == [k \in {} |-> Empty]

IsEmptyDict(d) == DOMAIN d = {}

\* d.get(k, default)
Get(d, k, default) == IF k \in DOMAIN d THEN d[k] ELSE default

\* lines 245-255: the try block over the provider's document
BrandParse(dom, body) ==
    IF body.kind # "json" THEN EmptyDict
    ELSE LET logos == body.logos
             logo_url == IF logos # <<>> THEN OrElse(logos[1].url, logos[1].src)
                         ELSE Empty
             name == OrElse(body.name, dom)
         IN  [logo |-> logo_url, name |-> name]

fetch_brandfetch_data_unkeyed(dom, key, outs) ==
    LET http == _safe_get(outs) IN
    [value |-> IF Failed(http.ret) THEN EmptyDict ELSE BrandParse(dom, http.ret.body),
     raised |-> http.raised,
     attempts |-> http.attempts, sent |-> Sent(http)]
\* returns the dict and the number of requests sent
fetch_brandfetch_data(dom, key, outs) ==
    IF ~Truthy(dom) THEN [value |-> EmptyDict, raised |-> FALSE, attempts |-> 0, sent |-> <<>>]
    ELSE IF ~key THEN [value |-> EmptyDict, raised |-> FALSE, attempts |-> 0, sent |-> <<>>]
    ELSE LET http == _safe_get(outs) IN
         [value |-> IF Failed(http.ret) THEN EmptyDict
                    ELSE BrandParse(dom, http.ret.body),
          raised |-> http.raised,
          attempts |-> http.attempts, sent |-> Sent(http)]

WWW == <<"w","w","w",".">>
DotCom == <<".","c","o","m">>
DotCo == <<".","c","o">>
DotIo == <<".","i","o">>

\* line 264
CleanDomain(dom) == SplitFirst(Replace(dom, WWW, Empty), "/")

\* lines 269-274
Variations(clean_domain) ==
    << clean_domain,
       WWW \o clean_domain,
       Replace(clean_domain, DotCom, DotCo),
       Replace(clean_domain, DotIo, DotCom) >>

\* lines 276-281: the loop over the variations from index i on; world[d] is
\* what the provider does when asked for d
RECURSIVE TryVariationsNoBreak(_, _, _, _, _, _)
TryVariationsNoBreak(variations, i, clean_domain, key, world, acc) ==
    IF i > Len(variations) THEN acc
    ELSE IF variations[i] = clean_domain
    THEN TryVariationsNoBreak(variations, i + 1, clean_domain, key, world, acc)
    ELSE LET alt == fetch_brandfetch_data(variations[i], key, world[variations[i]])
             seen == [acc EXCEPT !.queried = Append(@, variations[i]),
                                 !.attempts = @ + alt.attempts,
                                 !.sent = @ \o alt.sent,
                                 !.raised = @ \/ alt.raised]
         IN  IF Truthy(Get(alt.value, "name", Empty))
             THEN TryVariationsNoBreak(variations, i + 1, clean_domain, key, world,
                                       [seen EXCEPT !.value = alt.value])
             ELSE TryVariationsNoBreak(variations, i + 1, clean_domain, key, world, seen)

RECURSIVE TryVariations(_, _, _, _, _, _)
TryVariations(variations, i, clean_domain, key, world, acc) ==
    IF i > Len(variations) THEN acc
    ELSE IF variations[i] = clean_domain
    THEN TryVariations(variations, i + 1, clean_domain, key, world, acc)
    ELSE LET alt == fetch_brandfetch_data(variations[i], key, world[variations[i]])
             seen == [acc EXCEPT !.queried = Append(@, variations[i]),
                                 !.attempts = @ + alt.attempts,
                                 !.sent = @ \o alt.sent,
                                 !.raised = @ \/ alt.raised]
         IN  IF Truthy(Get(alt.value, "name", Empty))
             THEN [seen EXCEPT !.value = alt.value]
             ELSE TryVariations(variations, i + 1, clean_domain, key, world, seen)

\* value: the dict returned; queried: the domains looked up, in order
fetch_brandfetch_data_enhanced(dom, key, world) ==
    IF ~Truthy(dom)
    THEN [value |-> EmptyDict, raised |-> FALSE, attempts |-> 0, sent |-> <<>>,
          queried |-> <<>>]
    ELSE LET clean_domain == CleanDomain(dom)
             first == fetch_brandfetch_data(clean_domain, key, world[clean_domain])
             acc == [value |-> first.value, raised |-> first.raised,
                     attempts |-> first.attempts, sent |-> first.sent,
                     queried |-> <<clean_domain>>]
         IN  IF ~Truthy(Get(first.value, "name", Empty)) /\ Contains(<<".">>, clean_domain)
             THEN TryVariations(Variations(clean_domain), 1, clean_domain, key, world, acc)
             ELSE acc

(***************************************************************************)
(* SpecBrand: one call of fetch_brandfetch_data_enhanced                   *)
(***************************************************************************)
BrandDomains ==
    { Empty,
      <<"a",".","c","o","m">>,
      <<"w","w","w",".","a",".","i","o">>,
      <<"a",".","c","o">>,
      <<"a","b">>,
      <<"a",".","i","o","/","x">> }

BrandReplies ==
    LET NamedBrand == [kind |-> "json", name |-> <<"N">>,
                       logos |-> <<[url |-> <<"L">>, src |-> Empty]>>]
        UnnamedBrand == [kind |-> "json", name |-> Empty, logos |-> <<>>]
    IN
    { [k \in 1..WorldAttempts |-> Ok(NamedBrand)],
      [k \in 1..WorldAttempts |-> Ok(UnnamedBrand)],
      [k \in 1..WorldAttempts |-> Ok(BadJson)],
      [k \in 1..WorldAttempts |-> Err("http_error")] }

\* the variants the specification text lists
ListedVariants(clean_domain) ==
    << WWW \o clean_domain,
       Replace(clean_domain, DotCom, DotCo),
       Replace(clean_domain, DotCo, DotCom),
       Replace(clean_domain, DotIo, DotCom),
       Replace(clean_domain, DotCom, DotIo) >>

Range(f) == {f[i] : i \in DOMAIN f}

\* every domain a lookup could be made for
BrandUniverse(dom) ==
    Range(Variations(CleanDomain(dom))) \cup Range(ListedVariants(CleanDomain(dom)))

InitBrand ==
    /\ Idle
    /\ \E dom \in BrandDomains, key \in BOOLEAN :
         \E world \in [BrandUniverse(dom) -> BrandReplies] :
             arg = [fn |-> "fetch_brandfetch_data_enhanced", domain |-> dom,
                    key |-> key, world |-> world]
    /\ ret = NotCalled

CallBrand ==
    /\ ret = NotCalled
    /\ arg.fn = "fetch_brandfetch_data_enhanced"
    /\ ret' = fetch_brandfetch_data_enhanced(arg.domain, arg.key, arg.world)
    /\ UNCHANGED arg
    /\ IdleUnchanged

NextBrand == CallBrand

SpecBrand == InitBrand /\ [][NextBrand]_vars

\* a lookup of d, as the world of this call answers it
BrandLookup(d) == fetch_brandfetch_data(d, arg.key, arg.world[d]).value

YieldsName(d) == Truthy(Get(BrandLookup(d), "name", Empty))

\* the lookup for the cleaned domain was made and gave no name
CleanLookupFailed ==
    /\ Called
    /\ Truthy(arg.domain)
    /\ ~YieldsName(CleanDomain(arg.domain))

\* index of the first domain of ds that yields a name, 0 if none
FirstYield(ds) ==
    IF \E i \in 1..Len(ds) : YieldsName(ds[i])
    THEN CHOOSE i \in 1..Len(ds) : YieldsName(ds[i]) /\ \A j \in 1..(i - 1) : ~YieldsName(ds[j])
    ELSE 0

\* C10 as stated: after a failed lookup of the cleaned domain the result is
\* that of the first of the five listed variants ("www."-prefixed, .com->.co,
\* .co->.com, .io->.com, .com->.io) that yields a name, and empty if none does.
C10_ListedVariantsTried ==
    CleanLookupFailed =>
        LET ds == ListedVariants(CleanDomain(arg.domain))
            i == FirstYield(ds)
        IN  ret.value = IF i = 0 THEN EmptyDict ELSE BrandLookup(ds[i])

\* the variants of the code, without those equal to the cleaned domain
CodeVariants(clean_domain) ==
    SelectSeq(<< WWW \o clean_domain,
                 Replace(clean_domain, DotCom, DotCo),
                 Replace(clean_domain, DotIo, DotCom) >>,
              LAMBDA d : d # clean_domain)

\* C10 amended: after a failed lookup of a cleaned domain that contains a ".",
\* the variants "www."-prefixed, .com->.co and .io->.com are looked up in that
\* order (one equal to the cleaned domain is skipped), up to and including the
\* first that yields a name, whose result is returned; if none yields a name,
\* or the cleaned domain has no ".", the result is empty.
C10_CodeVariantsTried ==
    CleanLookupFailed =>
        LET clean_domain == CleanDomain(arg.domain)
            ds == IF Contains(<<".">>, clean_domain) THEN CodeVariants(clean_domain)
                  ELSE <<>>
            i == FirstYield(ds)
        IN  /\ ret.value = IF i = 0 THEN EmptyDict ELSE BrandLookup(ds[i])
            /\ ret.queried = <<clean_domain>> \o
                               SubSeq(ds, 1, IF i = 0 THEN Len(ds) ELSE i)

\* the second variant tried gave the name, a later one would have too
C10_Witness ==
    /\ CleanLookupFailed
    /\ Len(ret.queried) = 3
    /\ ret.value = BrandLookup(ret.queried[3])
    /\ ~IsEmptyDict(ret.value)

(***************************************************************************)
(* fetch_news_articles / fetch_news_articles_enhanced                      *)
(***************************************************************************)
\* xs[:n], n >= 0
Take(xs, n) == SubSeq(xs, 1, IF n < Len(xs) THEN n ELSE Len(xs))

\* lines 361-366: the loop over results[:limit]
RECURSIVE NewsOut(_)
NewsOut(rs) ==
    IF rs = <<>> THEN <<>>
    ELSE LET a == Head(rs)
             title == OrElse(a.title, a.headline)
             link == OrElse(a.link, a.url)
         IN  IF Truthy(title) THEN <<[title |-> title, link |-> link]>> \o NewsOut(Tail(rs))
             ELSE NewsOut(Tail(rs))

\* lines 359-367; a document that is not JSON raises, caught at line 368
NewsParse(body, limit) ==
    IF body.kind # "json" THEN <<>>
    ELSE LET rs == IF body.results # <<>> THEN body.results ELSE body.articles
         IN  NewsOut(Take(rs, limit))

fetch_news_articles(company_name, limit, key, outs) ==
    IF ~key THEN [value |-> <<>>, raised |-> FALSE, attempts |-> 0, sent |-> <<>>]
    ELSE LET http == _safe_get(outs) IN
         [value |-> IF http.raised \/ Failed(http.ret) THEN <<>>
                    ELSE NewsParse(http.ret.body, limit),
          raised |-> FALSE,
          attempts |-> http.attempts, sent |-> Sent(http)]

\* line 391
NormTitleCased(title) == Strip(title)
NormTitle(title) == Strip(Lower(title))

\* lines 387-394
RECURSIVE Unique(_, _)
Unique(articles, seen_titles) ==
    IF articles = <<>> THEN <<>>
    ELSE LET title == NormTitle(Head(articles).title) IN
         IF Truthy(title) /\ title \notin seen_titles
         THEN <<Head(articles)>> \o Unique(Tail(articles), seen_titles \cup {title})
         ELSE Unique(Tail(articles), seen_titles)

\* line 383
NewsCleanDomain(dom) ==
    LET HttpsPrefix == <<"h","t","t","p","s",":","/","/">>
        HttpPrefix == <<"h","t","t","p",":","/","/">>
    IN  SplitFirst(Replace(Replace(Replace(dom, WWW, Empty), HttpsPrefix, Empty),
                           HttpPrefix, Empty), "/")

\* line 382
DomainQueried(company_name, dom) == Truthy(dom) /\ ~Contains(dom, company_name)

\* world[q]: what the news provider does when asked for q.  queries: the
\* lookups made, in order.
fetch_news_articles_enhanced(company_name, dom, limit, key, world) ==
    LET by_name == IF Truthy(company_name)
                   THEN fetch_news_articles(company_name, limit, key, world[company_name])
                   ELSE [value |-> <<>>, raised |-> FALSE, attempts |-> 0, sent |-> <<>>]
        clean_domain == NewsCleanDomain(dom)
        by_domain == IF DomainQueried(company_name, dom)
                     THEN fetch_news_articles(clean_domain, limit, key, world[clean_domain])
                     ELSE [value |-> <<>>, raised |-> FALSE, attempts |-> 0, sent |-> <<>>]
        articles == by_name.value \o by_domain.value
    IN  [value |-> Take(Unique(articles, {}), limit),
         raised |-> by_name.raised \/ by_domain.raised,
         attempts |-> by_name.attempts + by_domain.attempts,
         sent |-> by_name.sent \o by_domain.sent,
         queries |-> (IF Truthy(company_name) THEN <<[by |-> "name", q |-> company_name]>>
                      ELSE <<>>)
                     \o (IF DomainQueried(company_name, dom)
                         THEN <<[by |-> "domain", q |-> clean_domain]>> ELSE <<>>)]

(***************************************************************************)
(* SpecNews: one call of fetch_news_articles_enhanced                      *)
(***************************************************************************)
MaxArticles == 2
MaxLimit == 2

RawArticle(title, headline, link, url) ==
    [title |-> title, headline |-> headline, link |-> link, url |-> url]

NewsBodies ==
    LET RawArticles ==
            { RawArticle(<<"A">>, Empty, <<"1">>, Empty),
              RawArticle(<<"a"," ">>, Empty, <<"2">>, Empty),
              RawArticle(Empty, <<"B">>, Empty, <<"3">>),
              RawArticle(<<" ">>, Empty, <<"4">>, Empty),
              RawArticle(Empty, Empty, <<"5">>, Empty) }
    IN  {BadJson}
        \cup [kind : {"json"}, results : SeqsUpTo(RawArticles, MaxArticles),
              articles : {<<>>}]
        \cup {[kind |-> "json", results |-> <<>>,
               articles |-> <<RawArticle(<<"a">>, Empty, <<"6">>, Empty)>>]}

NewsReplies ==
    {[k \in 1..WorldAttempts |-> Ok(b)] : b \in NewsBodies}
    \cup {[k \in 1..WorldAttempts |-> Err("timeout")]}

\* (company_name, domain) pairs: no domain; a domain inside the name; a domain
\* apart from the name; no name; a domain that cleans to the name
NewsInputs ==
    { <<(<<"a","b">>), Empty>>,
      <<(<<"a","b">>), (<<"b">>)>>,
      <<(<<"a","b">>), (<<"c",".","i","o">>)>>,
      <<Empty, (<<"c",".","i","o">>)>>,
      <<(<<"a","b">>), (<<"w","w","w",".","a","b">>)>> }

NewsQueries(company_name, dom) ==
    (IF Truthy(company_name) THEN {company_name} ELSE {})
    \cup (IF DomainQueried(company_name, dom) THEN {NewsCleanDomain(dom)} ELSE {})

InitNews ==
    /\ Idle
    /\ \E in \in NewsInputs, limit \in 0..MaxLimit :
         \E world \in [NewsQueries(in[1], in[2]) -> NewsReplies] :
         \E key \in (IF \A q \in DOMAIN world : world[q] = [k \in 1..WorldAttempts |-> Ok(BadJson)]
                      THEN BOOLEAN ELSE {TRUE}) :
             arg = [fn |-> "fetch_news_articles_enhanced", company_name |-> in[1],
                    domain |-> in[2], limit |-> limit, key |-> key, world |-> world]
    /\ ret = NotCalled

CallNews ==
    /\ ret = NotCalled
    /\ arg.fn = "fetch_news_articles_enhanced"
    /\ ret' = fetch_news_articles_enhanced(arg.company_name, arg.domain, arg.limit,
                                            arg.key, arg.world)
    /\ UNCHANGED arg
    /\ IdleUnchanged

NextNews == CallNews

SpecNews == InitNews /\ [][NextNews]_vars

\* what the lookup keyed on q returns in this call
NewsLookup(q) == fetch_news_articles(q, arg.limit, arg.key, arg.world[q]).value

\* the name-query results followed by the domain-query results
NewsConcat ==
    (IF Truthy(arg.company_name) THEN NewsLookup(arg.company_name) ELSE <<>>)
    \o (IF DomainQueried(arg.company_name, arg.domain)
        THEN NewsLookup(NewsCleanDomain(arg.domain)) ELSE <<>>)

\* lowercased and trimmed
Folded(title) == Strip(Lower(title))

\* position in xs of the first article titled t after folding, 0 if none
FirstSeen(xs, t) ==
    IF \E k \in 1..Len(xs) : Folded(xs[k].title) = t
    THEN CHOOSE k \in 1..Len(xs) :
             /\ Folded(xs[k].title) = t
             /\ \A j \in 1..(k - 1) : Folded(xs[j].title) # t
    ELSE 0

\* C8: the result has at most `limit` articles, no two with the same title
\* after lowercasing and trimming; each is the first article seen with its
\* title, in first-seen order over the name-query results followed by the
\* domain-query results; a title left out is blank or was first seen after
\* `limit` others; the domain is queried only when it is non-empty and not
\* a substring of the name.
C8_NewsDedupOrderLimit ==
    Called =>
        LET res == ret.value
            cat == NewsConcat
            pos(i) == FirstSeen(cat, Folded(res[i].title))
        IN  /\ Len(res) <= arg.limit
            /\ \A i, j \in 1..Len(res) :
                   i # j => Folded(res[i].title) # Folded(res[j].title)
            /\ \A i \in 1..Len(res) : pos(i) # 0 /\ res[i] = cat[pos(i)]
            /\ \A i, j \in 1..Len(res) : i < j => pos(i) < pos(j)
            /\ \A k \in 1..Len(cat) :
                   (\A i \in 1..Len(res) : Folded(res[i].title) # Folded(cat[k].title))
                   => \/ Folded(cat[k].title) = Empty
                      \/ /\ Len(res) = arg.limit
                         /\ \A i \in 1..Len(res) : pos(i) < k
            /\ (\E n \in 1..Len(ret.queries) : ret.queries[n].by = "domain")
                   => Truthy(arg.domain) /\ ~Contains(arg.domain, arg.company_name)

\* both queries answered, a title repeated in another case was merged, and
\* the limit cut the list
C8_Witness ==
    /\ Called
    /\ Len(ret.queries) = 2
    /\ Len(ret.value) = 2
    /\ Len(NewsConcat) = 4
    /\ \E k \in 1..Len(NewsConcat) :
           /\ NewsConcat[k].title # ret.value[1].title
           /\ Folded(NewsConcat[k].title) = Folded(ret.value[1].title)

(***************************************************************************)
(* URL utilities                                                           *)
(***************************************************************************)
Letters ==
    {"a","b","c","d","e","f","g","h","i","j","k","l","m","n","o","p","q","r","s",
     "t","u","v","w","x","y","z"} \cup DOMAIN UpperCase

Digits == {"0","1","2","3","4","5","6","7","8","9"}

SchemeChars == Letters \cup Digits \cup {"+", "-", "."}

\* position of the first c in s, 0 if none
IndexOf(s, c) ==
    IF \E i \in 1..Len(s) : s[i] = c
    THEN CHOOSE i \in 1..Len(s) : s[i] = c /\ \A j \in 1..(i - 1) : s[j] # c
    ELSE 0

\* the part of s before the first character of `stops`
RECURSIVE Until(_, _)
Until(s, stops) ==
    IF s = <<>> \/ Head(s) \in stops THEN <<>>
    ELSE <<Head(s)>> \o Until(Tail(s), stops)

\* urllib.parse.urlparse(url): the scheme, the netloc and the path
urlparse(url) ==
    LET colon == IndexOf(url, ":")
        has_scheme == /\ colon > 1
                      /\ url[1] \in Letters
                      /\ \A i \in 1..(colon - 1) : url[i] \in SchemeChars
        scheme == IF has_scheme THEN Lower(SubSeq(url, 1, colon - 1)) ELSE Empty
        rest == IF has_scheme THEN SubSeq(url, colon + 1, Len(url)) ELSE url
        netloc == IF StartsWith(rest, <<"/", "/">>)
                  THEN Until(SubSeq(rest, 3, Len(rest)), {"/", "?", "#"})
                  ELSE Empty
        after == IF StartsWith(rest, <<"/", "/">>)
                 THEN SubSeq(rest, 3 + Len(netloc), Len(rest))
                 ELSE rest
    IN  [scheme |-> scheme, netloc |-> netloc, path |-> Until(after, {"?", "#"})]

is_valid_url(url) ==
    IF ~Truthy(url) THEN FALSE
    ELSE LET p == urlparse(url) IN
         p.scheme \in {<<"h","t","t","p">>, <<"h","t","t","p","s">>} /\ Truthy(p.netloc)

extract_domain_lowered(url) ==
    IF ~is_valid_url(url)
    THEN IF ~Contains(<<"/">>, url) /\ Contains(<<".">>, url) THEN Strip(url) ELSE Empty
    ELSE Lower(urlparse(url).netloc)
extract_domain(url) ==
    IF ~Truthy(url) THEN Empty
    ELSE IF ~is_valid_url(url)
    THEN IF ~Contains(<<"/">>, url) /\ Contains(<<".">>, url) THEN Strip(url) ELSE Empty
    ELSE urlparse(url).netloc

\* validation.py: all([result.scheme, result.netloc])
validation_is_valid_url(url) ==
    LET result == urlparse(url) IN Truthy(result.scheme) /\ Truthy(result.netloc)

\* parser_utils.py
parser_utils_extract_domain(url) ==
    IF ~Truthy(url) THEN Empty
    ELSE LET parsed == urlparse(url)
             dom == OrElse(parsed.netloc, parsed.path)
         IN  Lower(Strip(Replace(dom, <<"w","w","w",".">>, Empty)))

(***************************************************************************)
(* scrape_website_content                                                  *)
(***************************************************************************)
\* sep.join(parts)
RECURSIVE Join(_, _)
Join(parts, sep) ==
    IF parts = <<>> THEN Empty
    ELSE IF Len(parts) = 1 THEN parts[1]
    ELSE parts[1] \o sep \o Join(Tail(parts), sep)

\* ' '.join(s.split())
RECURSIVE Words(_, _)
Words(s, word) ==
    IF s = <<>> THEN (IF word = <<>> THEN <<>> ELSE <<word>>)
    ELSE IF IsSpace(Head(s))
         THEN (IF word = <<>> THEN <<>> ELSE <<word>>) \o Words(Tail(s), <<>>)
         ELSE Words(Tail(s), Append(word, Head(s)))

NormalizeSpace(s) == Join(Words(s, <<>>), <<" ">>)

LimitedText == <<"W","e","b","s","i","t","e"," ","c","o","n","t","e","n","t"," ","e","x","t","r","a","c","t","e","d"," ","b","u","t"," ","l","i","m","i","t","e","d"," ","t","e","x","t"," ","a","v","a","i","l","a","b","l","e">>

\* lines 91-155 over a fetched page: page.title, .description, .h1s and
\* .first_p are what the parser finds, page.main the text chosen by lines
\* 116-131 (content selectors, else the body)
ScrapeParse(page) ==
    IF page.kind # "html" THEN [raised |-> TRUE, value |-> Empty]
    ELSE LET title == Strip(page.title)
             description == Strip(page.description)
             headings == [i \in 1..Len(Take(page.h1s, 2)) |-> Strip(page.h1s[i])]
             first_paragraph == Strip(page.first_p)
             main_content == NormalizeSpace(page.main)
             summary_parts ==
                 (IF Truthy(title) THEN <<<<"T","i","t","l","e",":"," ">> \o title>> ELSE <<>>)
                 \o (IF Truthy(description) THEN <<<<"D","e","s","c","r","i","p","t","i","o","n",":"," ">> \o description>>
                     ELSE <<>>)
                 \o (IF headings # <<>> THEN <<<<"H","e","a","d","i","n","g","s",":"," ">> \o Join(headings, <<","," ">>)>>
                     ELSE <<>>)
                 \o (IF Truthy(main_content) THEN <<<<"C","o","n","t","e","n","t",":"," ">> \o main_content>>
                     ELSE IF Truthy(first_paragraph)
                     THEN <<<<"C","o","n","t","e","n","t",":"," ">> \o first_paragraph>>
                     ELSE <<>>)
             result == Join(summary_parts, <<" ","|"," ">>)
         IN  [raised |-> FALSE, value |-> IF Truthy(result) THEN result ELSE LimitedText]

scrape_website_content(url, outs) ==
    IF ~Truthy(url) \/ ~is_valid_url(url)
    THEN [value |-> Empty, raised |-> FALSE, attempts |-> 0, sent |-> <<>>]
    ELSE LET http == _safe_get(outs)
             parsed == IF Failed(http.ret) THEN [raised |-> FALSE, value |-> Empty]
                       ELSE ScrapeParse(http.ret.body)
         IN  [value |-> IF http.raised \/ parsed.raised THEN Empty ELSE parsed.value,
              raised |-> FALSE,
              attempts |-> http.attempts, sent |-> Sent(http)]

(***************************************************************************)
(* _fetch_serper_organic / fetch_strategic_context                         *)
(***************************************************************************)
\* s.lstrip("/")
RECURSIVE LStripSlash(_)
LStripSlash(s) == IF s # <<>> /\ Head(s) = "/" THEN LStripSlash(Tail(s)) ELSE s

\* a.get(k1) or a.get(k2) or a.get(k3) or ""
Get3(d, k1, k2, k3) ==
    OrElse(Get(d, k1, Empty), OrElse(Get(d, k2, Empty), Get(d, k3, Empty)))

\* lines 181-191
SerperItem(item) ==
    LET title == OrElse(Get(item, "title", Empty), Get(item, "label", Empty))
        snippet == Get3(item, "snippet", "description", "snippetText")
        raw == Get3(item, "link", "url", "source")
        link == IF Truthy(raw) /\ ~StartsWith(raw, <<"h","t","t","p">>)
                THEN <<"h","t","t","p","s",":","/","/">> \o LStripSlash(raw) ELSE raw
    IN  [title |-> Strip(title), content |-> Strip(snippet), source |-> Strip(link)]

\* lines 177-195
SerperParse(body) ==
    IF body.kind # "json" THEN <<>>
    ELSE LET organic == IF Get(body, "organic", <<>>) # <<>> THEN body.organic
                        ELSE IF Get(body, "results", <<>>) # <<>> THEN body.results
                        ELSE Get(body, "organic_results", <<>>)
         IN  [i \in 1..Len(organic) |-> SerperItem(organic[i])]

_fetch_serper_organic(query, num, key, outs) ==
    IF ~key THEN [value |-> <<>>, raised |-> FALSE, attempts |-> 0, sent |-> <<>>]
    ELSE LET http == _safe_post(outs) IN
         [value |-> IF Failed(http.ret) THEN <<>> ELSE SerperParse(http.ret.body),
          raised |-> http.raised,
          attempts |-> http.attempts, sent |-> Sent(http)]

StrategicQueries == 2
StrategicNum == 2

\* world[n]: what the search provider does for the n-th strategic query
RECURSIVE StrategicLoop(_, _, _, _)
StrategicLoop(n, key, world, acc) ==
    IF n > StrategicQueries \/ acc.raised THEN acc
    ELSE LET r == _fetch_serper_organic(n, StrategicNum, key, world[n]) IN
         StrategicLoop(n + 1, key, world,
                       [value |-> acc.value \o r.value,
                        raised |-> acc.raised \/ r.raised,
                        attempts |-> acc.attempts + r.attempts,
                        sent |-> acc.sent \o r.sent,
                        queries |-> acc.queries + 1])

fetch_strategic_context(company_name, industry, key, world) ==
    StrategicLoop(1, key, world,
                  [value |-> <<>>, raised |-> FALSE, attempts |-> 0, sent |-> <<>>,
                   queries |-> 0])

(***************************************************************************)
(* find_official_website                                                   *)
(***************************************************************************)
WebsiteFromDdgAbstractFirst(resp) ==
    IF Failed(resp) \/ resp.body.kind # "json" THEN [via |-> "none", value |-> Empty]
    ELSE LET data == resp.body
             related == data.RelatedTopics
         IN  IF Truthy(data.AbstractURL)
             THEN [via |-> "abstract", value |-> data.AbstractURL]
             ELSE IF related # <<>> /\ Truthy(Get(related[1], "FirstURL", Empty))
             THEN [via |-> "related", value |-> related[1].FirstURL]
             ELSE [via |-> "none", value |-> Empty]
\* lines 415-425 over the knowledge provider's answer: the URL found, or ""
WebsiteFromDdg(resp) ==
    IF Failed(resp) \/ resp.body.kind # "json" THEN [via |-> "none", value |-> Empty]
    ELSE LET data == resp.body
             related == data.RelatedTopics
         IN  IF related # <<>> /\ Truthy(Get(related[1], "FirstURL", Empty))
             THEN [via |-> "related", value |-> related[1].FirstURL]
             ELSE IF Truthy(data.AbstractURL)
             THEN [via |-> "abstract", value |-> data.AbstractURL]
             ELSE [via |-> "none", value |-> Empty]

\* lines 429-436: the company name read as a bare domain
WebsiteFromName(company_name) ==
    IF ~Contains(<<".">>, company_name) THEN Empty
    ELSE LET candidate == Strip(company_name)
             prefixed == IF ~StartsWith(candidate, <<"h","t","t","p">>)
                         THEN <<"h","t","t","p","s",":","/","/">> \o candidate ELSE candidate
         IN  IF is_valid_url(candidate) THEN candidate
             ELSE IF is_valid_url(prefixed) THEN prefixed
             ELSE Empty

TLDs == <<<<".","c","o","m">>, <<".","i","o">>, <<".","c","o">>, <<".","a","i">>>>

\* line 443
SourceMatches(company_name, source) ==
    \/ Contains(Lower(company_name), Lower(source))
    \/ \E i \in 1..Len(TLDs) : Contains(TLDs[i], source)

\* lines 441-444: index of the item returned, 0 if none
FirstMatch(company_name, items) ==
    IF \E i \in 1..Len(items) : SourceMatches(company_name, items[i].source)
    THEN CHOOSE i \in 1..Len(items) :
             /\ SourceMatches(company_name, items[i].source)
             /\ \A j \in 1..(i - 1) : ~SourceMatches(company_name, items[j].source)
    ELSE 0

\* value: the website; via: the fallback that gave it; steps: the fallbacks
\* evaluated, in order.  Both provider parts run inside `try` (lines 405-427,
\* 438-446), so an exception there only ends that part.
find_official_website(company_name, ddg_outs, serper_key, serper_world) ==
    LET http == _safe_get(ddg_outs)
        ddg == WebsiteFromDdg(http.ret)
        named == WebsiteFromName(company_name)
        strategic == fetch_strategic_context(company_name, Empty, serper_key, serper_world)
        hit == IF strategic.raised THEN 0 ELSE FirstMatch(company_name, strategic.value)
    IN  IF ddg.via # "none"
        THEN [value |-> ddg.value, via |-> ddg.via, raised |-> FALSE,
              attempts |-> http.attempts, sent |-> Sent(http),
              search_attempts |-> 0, steps |-> <<"ddg">>]
        ELSE IF Truthy(named)
        THEN [value |-> named, via |-> "name", raised |-> FALSE,
              attempts |-> http.attempts, sent |-> Sent(http),
              search_attempts |-> 0,
              steps |-> <<"ddg", "name">>]
        ELSE [value |-> IF hit = 0 THEN Empty ELSE strategic.value[hit].source,
              via |-> IF hit = 0 THEN "none" ELSE "strategic",
              raised |-> FALSE,
              attempts |-> http.attempts + strategic.attempts,
              sent |-> Sent(http) \o strategic.sent,
              search_attempts |-> strategic.attempts,
              steps |-> IF Contains(<<".">>, company_name)
                        THEN <<"ddg", "name", "strategic">> ELSE <<"ddg", "strategic">>]

(***************************************************************************)
(* _call_groq_chat / infer_industry                                        *)
(***************************************************************************)
Unknown == <<"U","n","k","n","o","w","n">>

\* the parsed JSON document, or None
_call_groq_chat(key, outs) ==
    IF ~key THEN [value |-> None, raised |-> FALSE, attempts |-> 0, sent |-> <<>>]
    ELSE LET http == _safe_post(outs) IN
         [value |-> IF Failed(http.ret) \/ http.ret.body.kind # "json" THEN None
                    ELSE [kind |-> "json", data |-> http.ret.body.data],
          raised |-> http.raised,
          attempts |-> http.attempts, sent |-> Sent(http)]

\* resp["choices"][0]["message"]["content"] can be read
HasContent(data) ==
    /\ "choices" \in DOMAIN data
    /\ data.choices # <<>>
    /\ "message" \in DOMAIN data.choices[1]
    /\ "content" \in DOMAIN data.choices[1].message

\* lines 480-486
IndustryOfBlank(resp) ==
    IF resp.kind = "None" \/ IsEmptyDict(resp.data) THEN Empty
    ELSE IF ~HasContent(resp.data) THEN Unknown
    ELSE Strip(resp.data.choices[1].message.content)
IndustryOf(resp) ==
    IF resp.kind = "None" \/ IsEmptyDict(resp.data) THEN Unknown
    ELSE IF ~HasContent(resp.data) THEN Unknown
    ELSE Strip(resp.data.choices[1].message.content)

infer_industry(company_name, summary, key, outs) ==
    LET resp == _call_groq_chat(key, outs) IN
    [value |-> IndustryOf(resp.value), raised |-> resp.raised, attempts |-> resp.attempts,
     sent |-> resp.sent]

(***************************************************************************)
(* research_company_thoroughly                                             *)
(***************************************************************************)
NewsLimit == 5

\* lines 495-504
InitialResults(company_name, site) ==
    [company_name |-> company_name, website |-> site, canonical_name |-> company_name,
     summary |-> Empty, news |-> <<>>, logo |-> Empty, industry |-> Empty,
     sources_used |-> <<>>]

\* lines 516-519
BrandStageAlways(res, brand_data, company_name) ==
    [res EXCEPT !.logo = Get(brand_data, "logo", Empty),
                !.canonical_name = Get(brand_data, "name", Empty),
                !.sources_used = Append(@, "Brandfetch")]
BrandStage(res, brand_data, company_name) ==
    IF ~IsEmptyDict(brand_data)
    THEN [res EXCEPT !.logo = Get(brand_data, "logo", Empty),
                     !.canonical_name = Get(brand_data, "name", company_name),
                     !.sources_used = Append(@, "Brandfetch")]
    ELSE res

\* lines 525-526
ContentStageReset(res, content) ==
    IF Truthy(content) THEN [res EXCEPT !.sources_used = <<"Website Content">>]
    ELSE res
ContentStage(res, content) ==
    IF Truthy(content) THEN [res EXCEPT !.sources_used = Append(@, "Website Content")]
    ELSE res

\* lines 530-535
SummaryStageSwapped(res, ddg_summary, content) ==
    IF Truthy(content)
    THEN [res EXCEPT !.summary = content, !.sources_used = Append(@, "Website Summary")]
    ELSE IF Truthy(ddg_summary)
    THEN [res EXCEPT !.summary = ddg_summary, !.sources_used = Append(@, "DuckDuckGo")]
    ELSE res
SummaryStage(res, ddg_summary, content) ==
    IF Truthy(ddg_summary)
    THEN [res EXCEPT !.summary = ddg_summary, !.sources_used = Append(@, "DuckDuckGo")]
    ELSE IF Truthy(content)
    THEN [res EXCEPT !.summary = content, !.sources_used = Append(@, "Website Summary")]
    ELSE res

\* lines 539-541
NewsStage(res, news_articles) ==
    IF news_articles # <<>>
    THEN [res EXCEPT !.news = news_articles, !.sources_used = Append(@, "NewsData")]
    ELSE res

\* lines 545-546
IndustryStageIfKnown(res, industry) ==
    IF industry = <<"U","n","k","n","o","w","n">> THEN [res EXCEPT !.industry = industry]
    ELSE [res EXCEPT !.industry = industry,
                     !.sources_used = Append(@, "AI Industry Classification")]
IndustryStage(res, industry) ==
    [res EXCEPT !.industry = industry,
                !.sources_used = Append(@, "AI Industry Classification")]

\* an exception that leaves an adapter ends the call
Goto(next, raised) == IF raised THEN "raised" ELSE next

\* one entry of `calls`
Call(fn, name, key, r) ==
    [fn |-> fn, name |-> name, key |-> key, attempts |-> r.attempts, out |-> r.value,
     sent |-> r.sent]

(***************************************************************************)
(* Spec: one call of research_company_thoroughly.  Each stage draws what    *)
(* its providers do, and whether its credential is configured.             *)
(***************************************************************************)
Names == {<<"a","b">>, <<"a",".","i","o">>}

Websites == {Empty, <<"h","t","t","p","s",":","/","/","w","w","w",".","a",".","c","o","m","/","x">>, <<"a",".","c","o">>, <<"x">>}

\* the remote end answers every attempt with b, or fails them all, or fails
\* once and then answers with `retried`
StageReplies(bodies, retried) ==
    {[k \in 1..WorldAttempts |-> Ok(b)] : b \in bodies}
    \cup {[k \in 1..WorldAttempts |-> Err("timeout")]}
    \cup {[k \in 1..WorldAttempts |-> IF k = 1 THEN Err("http_error") ELSE Ok(retried)]}

OfficialBodies ==
    { BadJson,
      [kind |-> "json", RelatedTopics |-> <<>>, AbstractURL |-> Empty],
      [kind |-> "json", RelatedTopics |-> <<[FirstURL |-> <<"h","t","t","p","s",":","/","/","a",".","i","o","/","p">>]>>,
       AbstractURL |-> <<"h","t","t","p",":","/","/","b",".","c","o">>],
      [kind |-> "json", RelatedTopics |-> <<[Text |-> <<"t">>]>>,
       AbstractURL |-> <<"h","t","t","p",":","/","/","b",".","c","o">>] }

SerperBodies ==
    { BadJson,
      [kind |-> "json", organic |-> <<[title |-> <<"t">>, snippet |-> <<"s">>, link |-> <<"z","z">>],
                                      [title |-> <<"u">>, url |-> <<"/","c",".","a","i">>]>>],
      [kind |-> "json", organic |-> <<[title |-> <<"t">>, link |-> <<"z","z">>]>>] }

Pages ==
    { [kind |-> "unparseable"],
      [kind |-> "html", title |-> Empty, description |-> Empty, h1s |-> <<>>,
       first_p |-> Empty, main |-> Empty],
      [kind |-> "html", title |-> <<" ","T"," ">>, description |-> Empty, h1s |-> <<<<"h">>>>,
       first_p |-> <<"p">>, main |-> <<"m"," "," ","n">>] }

SummaryBodies ==
    { BadJson,
      [kind |-> "json", AbstractText |-> Empty, Heading |-> Empty,
       RelatedTopics |-> <<>>],
      [kind |-> "json", AbstractText |-> <<"a"," ","t","e","c","h"," ","f","i","r","m">>, Heading |-> Empty,
       RelatedTopics |-> <<>>],
      [kind |-> "json", AbstractText |-> TextOf(<<"x">>, WordLimit), Heading |-> Empty,
       RelatedTopics |-> <<[dict |-> TRUE, Text |-> <<"y"," ","i","n","c">>, Result |-> Empty]>>] }

StageNewsBodies ==
    { BadJson,
      [kind |-> "json", results |-> <<>>, articles |-> <<>>],
      [kind |-> "json",
       results |-> <<RawArticle(<<"A">>, Empty, <<"1">>, Empty),
                     RawArticle(<<"a"," ">>, Empty, <<"2">>, Empty),
                     RawArticle(Empty, <<"B">>, Empty, <<"3">>)>>,
       articles |-> <<>>],
      [kind |-> "json",
       results |-> [i \in 1..6 |->
                       RawArticle(<< <<"c","d","e","f","g","h">>[i] >>, Empty, <<"4">>, Empty)],
       articles |-> <<>>] }

ChatBodies ==
    { BadJson,
      [kind |-> "json", data |-> EmptyDict],
      [kind |-> "json", data |-> [choices |-> <<>>]],
      [kind |-> "json", data |-> [choices |-> <<[message |-> [role |-> <<"a">>]]>>]],
      [kind |-> "json", data |-> [choices |-> <<[message |-> [content |-> <<" "," ">>]]>>]],
      [kind |-> "json", data |-> [choices |-> <<[message |-> [content |-> <<" ","F","i","n","T","e","c","h"," ">>]]>>]] }

Init ==
    /\ pc = "call"
    /\ arg \in [fn : {"research_company_thoroughly"}, company_name : Names,
                website : Websites]
    /\ ret = NotCalled
    /\ results = EmptyDict
    /\ website = Empty
    /\ domain = Empty
    /\ website_content = Empty
    /\ calls = <<>>
    /\ heap = <<>>

\* lines 495-504
Begin ==
    /\ pc = "call"
    /\ results' = InitialResults(arg.company_name, arg.website)
    /\ website' = arg.website
    /\ pc' = "discover"
    /\ UNCHANGED <<domain, website_content, calls, arg, ret, heap>>

\* lines 507-511
Discover ==
    /\ pc = "discover"
    /\ IF ~Truthy(website)
       THEN \E ddg_outs \in StageReplies(OfficialBodies, BadJson), key \in BOOLEAN :
            \E world \in [1..StrategicQueries ->
                             IF key THEN StageReplies(SerperBodies, BadJson)
                             ELSE {[k \in 1..WorldAttempts |-> Err("timeout")]}] :
                LET r == find_official_website(arg.company_name, ddg_outs, key, world) IN
                /\ website' = r.value
                /\ results' = [results EXCEPT !.website = r.value]
                /\ domain' = IF Truthy(r.value) THEN extract_domain(r.value) ELSE Empty
                /\ calls' = Append(calls, Call("find_official_website",
                                               arg.company_name, key, r)
                                          @@ [via |-> r.via,
                                              search_attempts |-> r.search_attempts])
                /\ pc' = Goto("brand", r.raised)
       ELSE /\ domain' = extract_domain(website)
            /\ pc' = "brand"
            /\ UNCHANGED <<website, results, calls>>
    /\ UNCHANGED <<website_content, arg, ret, heap>>

\* lines 514-519
Brand ==
    /\ pc = "brand"
    /\ IF Truthy(domain)
       THEN \E key \in BOOLEAN :
            \E world \in [Range(Variations(CleanDomain(domain))) ->
                             IF key THEN BrandReplies
                             ELSE {[k \in 1..WorldAttempts |-> Err("http_error")]}] :
                LET r == fetch_brandfetch_data_enhanced(domain, key, world) IN
                /\ results' = BrandStage(results, r.value, arg.company_name)
                /\ calls' = Append(calls, Call("fetch_brandfetch_data_enhanced",
                                               domain, key, r))
                /\ pc' = Goto("scrape", r.raised)
       ELSE /\ pc' = "scrape"
            /\ UNCHANGED <<results, calls>>
    /\ UNCHANGED <<website, domain, website_content, arg, ret, heap>>

\* lines 522-526
Scrape ==
    /\ pc = "scrape"
    /\ IF Truthy(website)
       THEN \E outs \in StageReplies(Pages, [kind |-> "unparseable"]) :
                LET r == scrape_website_content(website, outs) IN
                /\ website_content' = r.value
                /\ results' = ContentStage(results, r.value)
                /\ calls' = Append(calls, Call("scrape_website_content", website, TRUE, r))
                /\ pc' = Goto("summary", r.raised)
       ELSE /\ pc' = "summary"
            /\ UNCHANGED <<website_content, results, calls>>
    /\ UNCHANGED <<website, domain, arg, ret, heap>>

SummaryKeyedOnInput ==
    /\ pc = "summary"
    /\ \E outs \in StageReplies(SummaryBodies, BadJson) :
           LET r == fetch_duckduckgo_summary(arg.company_name, outs) IN
           /\ results' = SummaryStage(results, r.value, website_content)
           /\ calls' = Append(calls, Call("fetch_duckduckgo_summary",
                                          arg.company_name, TRUE, r))
           /\ pc' = Goto("news", r.raised)
    /\ UNCHANGED <<website, domain, website_content, arg, ret, heap>>
\* lines 529-535
Summary ==
    /\ pc = "summary"
    /\ \E outs \in StageReplies(SummaryBodies, BadJson) :
           LET r == fetch_duckduckgo_summary(results.canonical_name, outs) IN
           /\ results' = SummaryStage(results, r.value, website_content)
           /\ calls' = Append(calls, Call("fetch_duckduckgo_summary",
                                          results.canonical_name, TRUE, r))
           /\ pc' = Goto("news", r.raised)
    /\ UNCHANGED <<website, domain, website_content, arg, ret, heap>>

\* lines 538-541
News ==
    /\ pc = "news"
    /\ \E key \in BOOLEAN :
       \E world \in [NewsQueries(results.canonical_name, domain) ->
                        IF key THEN StageReplies(StageNewsBodies, BadJson)
                        ELSE {[k \in 1..WorldAttempts |-> Err("timeout")]}] :
           LET r == fetch_news_articles_enhanced(results.canonical_name, domain,
                                                 NewsLimit, key, world) IN
           /\ results' = NewsStage(results, r.value)
           /\ calls' = Append(calls, Call("fetch_news_articles_enhanced",
                                          results.canonical_name, key, r))
           /\ pc' = Goto("industry", r.raised)
    /\ UNCHANGED <<website, domain, website_content, arg, ret, heap>>

\* lines 544-546
Industry ==
    /\ pc = "industry"
    /\ IF Truthy(results.summary)
       THEN \E key \in BOOLEAN :
            \E outs \in (IF key THEN StageReplies(ChatBodies, BadJson)
                         ELSE {[k \in 1..WorldAttempts |-> Err("timeout")]}) :
                LET r == infer_industry(results.canonical_name, results.summary, key, outs)
                IN
                /\ results' = IndustryStage(results, r.value)
                /\ calls' = Append(calls, Call("infer_industry", results.canonical_name,
                                               key, r)
                                          @@ [reply |-> outs])
                /\ pc' = Goto("return", r.raised)
       ELSE /\ pc' = "return"
            /\ UNCHANGED <<results, calls>>
    /\ UNCHANGED <<website, domain, website_content, arg, ret, heap>>

\* line 548
Return ==
    /\ pc = "return"
    /\ ret' = results
    /\ pc' = "done"
    /\ UNCHANGED <<results, website, domain, website_content, calls, arg, heap>>

Next == Begin \/ Discover \/ Brand \/ Scrape \/ Summary \/ News \/ Industry \/ Return

Spec == Init /\ [][Next]_vars

(***************************************************************************)
(* Properties of research_company_thoroughly                               *)
(***************************************************************************)
CallsOf(fn) == SelectSeq(calls, LAMBDA c : c.fn = fn)

WasCalled(fn) == CallsOf(fn) # <<>>

Done == pc = "done"

RecordFields ==
    {"company_name", "website", "canonical_name", "summary", "news", "logo",
     "industry", "sources_used"}

StageRank ==
    [Brandfetch |-> 1] @@ ("Website Content" :> 2) @@ [DuckDuckGo |-> 3]
    @@ ("Website Summary" :> 3) @@ [NewsData |-> 4]
    @@ ("AI Industry Classification" :> 5)

InStageOrder(labels) ==
    /\ \A i \in 1..Len(labels) : labels[i] \in DOMAIN StageRank
    /\ \A i, j \in 1..Len(labels) : i < j => StageRank[labels[i]] < StageRank[labels[j]]

Running == pc \notin {"idle", "call"}

\* C3: during one call sources_used only grows (each step keeps the list so
\* far as a prefix), and its labels are in stage order, each at most once, with
\* at most one of "DuckDuckGo" and "Website Summary".
C3_SourcesAppendOnlyInOrder ==
    /\ [][Running => IsPrefix(results.sources_used, results'.sources_used)]_vars
    /\ [](Running => InStageOrder(results.sources_used))

\* every stage contributed
C3_Witness ==
    /\ Done
    /\ ret.sources_used = <<"Brandfetch", "Website Content", "DuckDuckGo", "NewsData",
                            "AI Industry Classification">>

StageIndex ==
    [call |-> 0, discover |-> 1, brand |-> 2, scrape |-> 3, summary |-> 4, news |-> 5,
     industry |-> 6, return |-> 7, done |-> 8, raised |-> 9, idle |-> 0]

\* the brand lookup gave no name: it did not run, or returned nothing
NoBrandName ==
    \/ ~WasCalled("fetch_brandfetch_data_enhanced")
    \/ ~Truthy(Get(CallsOf("fetch_brandfetch_data_enhanced")[1].out, "name", Empty))

\* C4: canonical_name starts as the input company_name; afterwards only the
\* brand stage changes it, and that stage is passed once; when the brand
\* lookup gives no name the returned canonical_name is the input company_name.
C4_CanonicalNameWrittenOnce ==
    /\ [][/\ pc = "call" => results'.canonical_name = arg.company_name
          /\ (Running /\ pc # "brand") => results'.canonical_name = results.canonical_name
          /\ StageIndex[pc'] > StageIndex[pc]]_vars
    /\ []((Done /\ NoBrandName) => ret.canonical_name = arg.company_name)

\* the brand lookup ran on a domain, failed, and the input name was kept
C4_Witness ==
    /\ Done
    /\ WasCalled("fetch_brandfetch_data_enhanced")
    /\ CallsOf("fetch_brandfetch_data_enhanced")[1].attempts > 0
    /\ NoBrandName
    /\ ret.canonical_name = arg.company_name

In(label, labels) == \E i \in 1..Len(labels) : labels[i] = label

\* what the summary lookup returned
DdgSummary == CallsOf("fetch_duckduckgo_summary")[1].out

\* C5: an empty summary lookup with non-empty website content gives summary =
\* website content, with "Website Summary" and without "DuckDuckGo" in
\* sources_used; a non-empty summary lookup gives summary = its text, with
\* "DuckDuckGo" and without "Website Summary".
C5_SummaryFallback ==
    Done =>
        /\ (~Truthy(DdgSummary) /\ Truthy(website_content))
           => /\ ret.summary = website_content
              /\ In("Website Summary", ret.sources_used)
              /\ ~In("DuckDuckGo", ret.sources_used)
        /\ Truthy(DdgSummary)
           => /\ ret.summary = DdgSummary
              /\ In("DuckDuckGo", ret.sources_used)
              /\ ~In("Website Summary", ret.sources_used)

\* the summary lookup came back empty and the website text was used
C5_Witness ==
    /\ Done
    /\ ~Truthy(DdgSummary)
    /\ Truthy(website_content)
    /\ ret.summary = website_content

\* the classifier call of this run
Classifier == CallsOf("infer_industry")[1]

\* the classifier had no credential, every attempt failed, or the answer was
\* not a JSON document carrying choices[0].message.content
ClassifierFailed ==
    \/ ~Classifier.key
    \/ \A k \in 1..RETRY_COUNT : ~Classifier.reply[k].ok
    \/ LET k == FirstOk(Classifier.reply, RETRY_COUNT)
           body == Classifier.reply[k].body
       IN  body.kind # "json" \/ ~HasContent(body.data)

\* the phrase in the classifier's answer
ClassifierPhrase ==
    Strip(Classifier.reply[FirstOk(Classifier.reply, RETRY_COUNT)]
              .body.data.choices[1].message.content)

\* C9 as stated: the returned industry is the classifier's phrase or
\* "Unknown"; it is "Unknown" when no summary was obtained and when the
\* classifier fails.
C9_IndustryPhraseOrUnknown ==
    Done =>
        IF ~Truthy(ret.summary) THEN ret.industry = Unknown
        ELSE IF ClassifierFailed THEN ret.industry = Unknown
        ELSE ret.industry = ClassifierPhrase

\* C9 amended: the returned industry is the classifier's phrase, "Unknown" or
\* the empty string; it is empty when no summary was obtained (the classifier
\* is not run), and "Unknown" when the classifier fails.
C9_IndustryPhraseUnknownOrEmpty ==
    Done =>
        IF ~Truthy(ret.summary) THEN ret.industry = Empty /\ ~WasCalled("infer_industry")
        ELSE IF ClassifierFailed THEN ret.industry = Unknown
        ELSE ret.industry = ClassifierPhrase

\* no summary was obtained and the record came back with an empty industry
C9_Witness ==
    /\ Done
    /\ ~Truthy(ret.summary)
    /\ WasCalled("fetch_duckduckgo_summary")
    /\ ret.industry = Empty

(***************************************************************************)
(* SpecStrategic: one call of fetch_strategic_context                       *)
(***************************************************************************)
MaxOrganic == 3

\* world[n]: what the search provider does for the n-th strategic query
InitStrategic ==
    LET OrganicItems ==
            { [title |-> <<" ","t">>, snippet |-> <<"s"," ">>, link |-> <<"z","z">>],
              [label |-> <<"u">>, description |-> <<"d">>, url |-> <<"/","c",".","a","i">>],
              [title |-> <<"v">>, source |-> <<"h","t","t","p",":","/","/","x">>],
              [title |-> <<"w">>] }
        StrategicBodies ==
            {BadJson}
            \cup {[kind |-> "json", organic |-> o] :
                    o \in SeqsUpTo(OrganicItems, MaxOrganic)}
            \cup {[kind |-> "json", organic |-> <<>>, results |-> <<o>>] :
                    o \in OrganicItems}
        Retried == [kind |-> "json", organic |-> <<[title |-> <<"w">>]>>]
    IN  /\ Idle
        /\ arg \in [fn : {"fetch_strategic_context"}, company_name : {<<"a","b">>},
                     key : BOOLEAN,
                     world : [1..StrategicQueries ->
                                 StageReplies(StrategicBodies, Retried)]]
        /\ ret = NotCalled

CallStrategic ==
    /\ ret = NotCalled
    /\ arg.fn = "fetch_strategic_context"
    /\ ret' = fetch_strategic_context(arg.company_name, Empty, arg.key, arg.world)
    /\ UNCHANGED arg
    /\ IdleUnchanged

NextStrategic == CallStrategic

SpecStrategic == InitStrategic /\ [][NextStrategic]_vars

\* what the n-th strategic query contributes
Contribution(n) == _fetch_serper_organic(n, StrategicNum, arg.key, arg.world[n])

\* the provider's result list behind the n-th contribution, <<>> if none was parsed
OrganicOf(n) ==
    LET k == FirstOk(arg.world[n], RETRY_COUNT) IN
    IF ~arg.key \/ k = 0 \/ arg.world[n][k].body.kind # "json" THEN <<>>
    ELSE LET body == arg.world[n][k].body IN
         IF body.organic # <<>> THEN body.organic ELSE Get(body, "results", <<>>)

RawLink(item) == Get3(item, "link", "url", "source")

ItemFields == {"title", "content", "source"}

\* C11: fetch_strategic_context issues at most two queries, each query
\* contributes at most 2 results, so the returned list has at most 4 items
\* whatever the provider responds; every item has exactly the fields title,
\* content, source; a non-empty source that does not start with "http" is
\* returned prefixed with "https://".
C11_AtMostFourItems ==
    Called =>
        /\ ret.queries <= 2
        /\ ret.value = Contribution(1).value \o Contribution(2).value
        /\ \A n \in 1..StrategicQueries :
              /\ Len(Contribution(n).value) <= 2
              /\ \A i \in 1..Len(Contribution(n).value) :
                    LET raw == RawLink(OrganicOf(n)[i]) IN
                    Truthy(raw) /\ ~StartsWith(raw, <<"h","t","t","p">>)
                        => StartsWith(Contribution(n).value[i].source, <<"h","t","t","p","s",":","/","/">>)
        /\ Len(ret.value) <= 4
        /\ \A i \in 1..Len(ret.value) : DOMAIN ret.value[i] = ItemFields

(***************************************************************************)
(* generate_ai_insight                                                     *)
(***************************************************************************)
FailedMessage == <<"A","n","a","l","y","s","i","s"," ","g","e","n","e","r","a","t","i","o","n"," ","f","a","i","l","e","d","."," ","P","l","e","a","s","e"," ","c","h","e","c","k"," ","t","h","e"," ","c","o","m","p","a","n","y"," ","w","e","b","s","i","t","e"," ","a","n","d"," ","t","r","y"," ","a","g","a","i","n",".">>

TruncatedMessage == <<"A","n","a","l","y","s","i","s"," ","w","a","s"," ","t","r","u","n","c","a","t","e","d","."," ","P","l","e","a","s","e"," ","t","r","y"," ","a","g","a","i","n"," ","w","i","t","h"," ","t","h","e"," ","'","S","t","r","a","t","e","g","i","c"," ","R","e","s","e","a","r","c","h","'"," ","o","p","t","i","o","n"," ","d","i","s","a","b","l","e","d",","," ","o","r"," ","p","r","o","v","i","d","e"," ","a"," ","c","o","m","p","a","n","y"," ","w","e","b","s","i","t","e"," ","f","o","r"," ","m","o","r","e"," ","f","o","c","u","s","e","d"," ","a","n","a","l","y","s","i","s",".">>

TechnicalErrorMessage == <<"A","n","a","l","y","s","i","s"," ","g","e","n","e","r","a","t","i","o","n"," ","f","a","i","l","e","d"," ","d","u","e"," ","t","o"," ","t","e","c","h","n","i","c","a","l"," ","e","r","r","o","r",".">>

WordThreshold == 300

\* s.endswith(chars)
EndsWithAny(s, chars) == s # <<>> /\ s[Len(s)] \in chars

\* line 644
LikelyTruncatedAtLeast(content) ==
    /\ Truthy(content)
    /\ ~EndsWithAny(content, {".", "!", "?"})
    /\ WordCount(content) >= WordThreshold
LikelyTruncated(content) ==
    /\ Truthy(content)
    /\ ~EndsWithAny(content, {".", "!", "?"})
    /\ WordCount(content) > WordThreshold

\* lines 640-651, resp a non-empty parsed document
InsightOf(resp) ==
    IF ~HasContent(resp.data) THEN TechnicalErrorMessage
    ELSE LET content == Strip(resp.data.choices[1].message.content) IN
         IF LikelyTruncated(content) THEN TruncatedMessage ELSE content

\* line 572: n.get(...) on an entry of news[:3] that is not a dict raises
NewsRaises(news) == \E i \in 1..Len(Take(news, 3)) : ~news[i].dict

ContextPartsAllResults(lead, strategic_data) ==
    <<[section |-> "Market Context",
       body |-> [i \in 1..Len(strategic_data) |->
                    [title |-> strategic_data[i].title,
                     content |-> strategic_data[i].content]]]>>
\* lines 563-587: the sections of the prompt context, in order
ContextParts(lead, strategic_data) ==
    LET Part(cond, section, body) ==
            IF cond THEN <<[section |-> section, body |-> body]>> ELSE <<>>
        shown == Take(lead.news, 3)
        market == Take(strategic_data, 2)
    IN  Part(Truthy(lead.summary), "Company Overview", lead.summary)
        \o Part(Truthy(lead.website), "Website", lead.website)
        \o Part(lead.news # <<>>, "Recent News & Mentions",
                [i \in 1..Len(shown) |->
                    [title |-> Get(shown[i], "title", Empty),
                     link |-> Get(shown[i], "link", Empty)]])
        \o Part(Truthy(lead.industry) /\ lead.industry # Unknown, "Industry", lead.industry)
        \o Part(lead.sources_used # <<>>, "Research Sources", lead.sources_used)
        \o Part(strategic_data # <<>>, "Market Context",
                [i \in 1..Len(market) |->
                    [title |-> market[i].title, content |-> market[i].content]])

\* value: the text returned (None if the call raised); searched: the
\* strategic-context adapter was invoked; context: the prompt's sections
generate_ai_insight(lead, include_strategic_context, serper_key, serper_world, groq_key, chat_outs) ==
    LET unsearched == [value |-> <<>>, raised |-> FALSE, attempts |-> 0, queries |-> 0]
        strategic == IF include_strategic_context
                     THEN fetch_strategic_context(lead.canonical_name, lead.industry,
                                                  serper_key, serper_world)
                     ELSE unsearched
        resp == _call_groq_chat(groq_key, chat_outs)
    IN  IF NewsRaises(lead.news)
        THEN [value |-> None, raised |-> TRUE, searched |-> FALSE,
              search_attempts |-> 0, context |-> <<>>, attempts |-> 0]
        ELSE IF strategic.raised
        THEN [value |-> None, raised |-> TRUE, searched |-> TRUE,
              search_attempts |-> strategic.attempts, context |-> <<>>, attempts |-> 0]
        ELSE [value |-> IF resp.raised THEN None
                        ELSE IF resp.value.kind = "None" \/ IsEmptyDict(resp.value.data)
                        THEN FailedMessage
                        ELSE InsightOf(resp.value),
              raised |-> resp.raised,
              searched |-> include_strategic_context,
              search_attempts |-> strategic.attempts,
              context |-> ContextParts(lead, strategic.value),
              attempts |-> resp.attempts]

(***************************************************************************)
(* generate_insight: the insight endpoint (routers/ai_insights.py)          *)
(***************************************************************************)
\* lines 24-49; insight: the call of generate_ai_insight it made
generate_insight(lead, include_strategic_research, serper_key, serper_world, groq_key, chat_outs) ==
    LET insight == generate_ai_insight(lead, include_strategic_research = "true",
                                       serper_key, serper_world, groq_key, chat_outs)
        titles_raise == \E i \in 1..Len(lead.news) : ~lead.news[i].dict
    IN  IF insight.raised \/ titles_raise
        THEN [status |-> "error", status_code |-> 500, insights |-> <<>>,
              insight |-> insight]
        ELSE [status |-> "success", status_code |-> 200,
              insights |-> <<[company_name |-> OrElse(lead.canonical_name, lead.company_name),
                              summary |-> lead.summary,
                              industry |-> OrElse(lead.industry, Unknown),
                              website |-> lead.website,
                              news |-> [i \in 1..Len(lead.news) |->
                                           Get(lead.news[i], "title", Empty)],
                              strategic_insight |-> insight.value,
                              sources_used |-> lead.sources_used,
                              research_depth |->
                                  IF include_strategic_research = "true"
                                  THEN "Strategic Context Included"
                                  ELSE "Standard Analysis"]>>,
              insight |-> insight]

(***************************************************************************)
(* SpecInsight: one call of generate_ai_insight, directly or through the    *)
(* insight endpoint                                                        *)
(***************************************************************************)
\* key: the search credential is configured; groq_key: the language model's;
\* include: include_strategic_research, an optional JSON boolean
InitInsight ==
    LET NewsEntry == [dict |-> TRUE, title |-> <<"A">>, link |-> <<"1">>]
        NotADict == [dict |-> FALSE]
        LeadNews ==
            { <<>>, <<NewsEntry>>, <<NewsEntry, NewsEntry, NewsEntry, NewsEntry>>,
              <<NotADict>>, <<NewsEntry, NewsEntry, NewsEntry, NotADict>> }
        Leads ==
            [company_name : {<<"a","b">>}, canonical_name : {<<"a","b">>},
             summary : {Empty, <<"s">>}, industry : {Empty, Unknown, <<"I","T">>},
             website : {Empty}, news : LeadNews,
             sources_used : {<<>>, <<"Brandfetch">>}]
        \* a text of 1 + extra words, then `tail`
        Answer(extra, tail) ==
            [i \in 1..(1 + 2 * extra) |-> IF i % 2 = 1 THEN "x" ELSE " "] \o tail
        Contents ==
            { Empty, <<" "," ">>, <<" ","o","k"," ">>, <<"F","i","n","e",".">>,
              Answer(WordThreshold - 1, Empty), Answer(WordThreshold, Empty),
              Answer(WordThreshold, <<".">>), Answer(WordThreshold, <<"!"," ">>),
              Answer(WordThreshold, <<" ","?">>), Answer(WordThreshold, <<"."," ">>) }
        InsightBodies ==
            { BadJson,
              [kind |-> "json", data |-> EmptyDict],
              [kind |-> "json", data |-> [choices |-> <<>>]],
              [kind |-> "json", data |-> [choices |-> <<[message |-> [role |-> <<"a">>]]>>]] }
            \cup {[kind |-> "json", data |-> [choices |-> <<[message |-> [content |-> c]]>>]] :
                    c \in Contents}
        Found == <<[title |-> <<"t">>, snippet |-> <<"s">>], [title |-> <<"u">>],
                   [title |-> <<"v">>]>>
        InsightSearch ==
            { [n \in 1..StrategicQueries |-> r] :
                r \in StageReplies({[kind |-> "json", organic |-> <<>>],
                                    [kind |-> "json", organic |-> Found]}, BadJson) }
    IN  /\ Idle
        /\ arg \in [fn : {"generate_ai_insight", "generate_insight"}, lead : Leads,
                     include : {"true", "false", "null"}, key : BOOLEAN,
                     world : InsightSearch, groq_key : BOOLEAN,
                     outs : StageReplies(InsightBodies,
                                         [kind |-> "json", data |-> EmptyDict])]
        /\ ret = NotCalled

\* a direct caller passes a boolean
CallInsight ==
    /\ ret = NotCalled
    /\ arg.fn = "generate_ai_insight"
    /\ arg.include # "null"
    /\ ret' = generate_ai_insight(arg.lead, arg.include = "true", arg.key,
                                  arg.world, arg.groq_key, arg.outs)
    /\ UNCHANGED arg
    /\ IdleUnchanged

CallEndpoint ==
    /\ ret = NotCalled
    /\ arg.fn = "generate_insight"
    /\ ret' = generate_insight(arg.lead, arg.include, arg.key, arg.world,
                               arg.groq_key, arg.outs)
    /\ UNCHANGED arg
    /\ IdleUnchanged

NextInsight == CallInsight \/ CallEndpoint

SpecInsight == InitInsight /\ [][NextInsight]_vars

\* the call of generate_ai_insight made, directly or by the endpoint
InsightCall == IF arg.fn = "generate_insight" THEN ret.insight ELSE ret

\* the language model's answer as _safe_post hands it over, None if none
ChatAnswer ==
    LET k == FirstOk(arg.outs, RETRY_COUNT) IN
    IF ~arg.groq_key \/ k = 0 THEN None ELSE Response(arg.outs[k].body)

\* the answer carries a text at choices[0].message.content
ChatHasText ==
    /\ ~Failed(ChatAnswer)
    /\ ChatAnswer.body.kind = "json"
    /\ HasContent(ChatAnswer.body.data)

ChatText == ChatAnswer.body.data.choices[1].message.content

\* C12: generate_ai_insight never raises and never returns an empty string;
\* when the language-model call fails (no credential, transport failure,
\* unparseable or malformed response, or empty model content) it returns a
\* fixed non-empty failure message.
C12_NeverRaisesNeverEmpty ==
    Called =>
        /\ ~InsightCall.raised
        /\ InsightCall.value # Empty
        /\ (~ChatHasText \/ Strip(ChatText) = Empty)
              => InsightCall.value \in {FailedMessage, TechnicalErrorMessage}

\* C13: an answer that (trimmed) has more than 300 words and does not end in
\* ".", "!" or "?" is replaced by the fixed truncation advisory; an answer
\* that ends in one of those characters or has at most 300 words is returned
\* trimmed and otherwise unchanged.
C13_TruncationGuard ==
    Called /\ ~InsightCall.raised /\ ChatHasText =>
        LET trimmed == Strip(ChatText)
            ended == EndsWithAny(trimmed, {".", "!", "?"})
        IN  /\ WordCount(trimmed) > 300 /\ ~ended
                  => InsightCall.value = TruncatedMessage
            /\ WordCount(trimmed) <= 300 \/ ended
                  => InsightCall.value = trimmed

\* an answer of 301 words without final punctuation was replaced
C13_Witness ==
    /\ Called
    /\ ~InsightCall.raised
    /\ ChatHasText
    /\ WordCount(ChatText) = 301
    /\ ~EndsWithAny(Strip(ChatText), {".", "!", "?"})
    /\ InsightCall.value = TruncatedMessage

\* the search results placed in the prompt context
MarketContext ==
    LET IsMarket(p) == p.section = "Market Context"
        parts == SelectSeq(InsightCall.context, IsMarket)
    IN  IF parts = <<>> THEN <<>> ELSE parts[1].body

\* the context build of lines 563-579 completed
ReachedStrategicStep == ~NewsRaises(arg.lead.news)

C14_NoCredentialNoRequest ==
    /\ pc # "raised"
    /\ \A i \in 1..Len(calls) :
          LET c == calls[i] IN
          ~c.key =>
              /\ c.fn = "find_official_website"
                    => c.search_attempts = 0 /\ c.via # "strategic"
              /\ c.fn = "fetch_brandfetch_data_enhanced"
                    => c.attempts = 0 /\ c.out = EmptyDict
              /\ c.fn = "fetch_news_articles_enhanced"
                    => c.attempts = 0 /\ c.out = <<>>
              /\ c.fn = "infer_industry"
                    => c.attempts = 0 /\ c.out = Unknown
    /\ Done => DOMAIN ret = RecordFields

\* no credential at all: the call completed, and the summary lookup, which
\* needs none, still contributed
C14_Witness ==
    /\ Done
    /\ \A fn \in {"find_official_website", "fetch_brandfetch_data_enhanced",
                  "fetch_news_articles_enhanced", "infer_industry"} :
          WasCalled(fn) /\ ~CallsOf(fn)[1].key
    /\ In("DuckDuckGo", ret.sources_used)
    /\ ret.industry = Unknown
    /\ ret.news = <<>>

\* position of the call of fn in the log, 0 if it was not made
CallIndex(fn) ==
    IF \E i \in 1..Len(calls) : calls[i].fn = fn
    THEN CHOOSE i \in 1..Len(calls) : calls[i].fn = fn
    ELSE 0

\* the name the brand lookup leaves: the brand's when it returned a record
NameAfterBrand ==
    LET b == CallIndex("fetch_brandfetch_data_enhanced") IN
    IF b # 0 /\ ~IsEmptyDict(calls[b].out)
    THEN Get(calls[b].out, "name", arg.company_name)
    ELSE arg.company_name

\* C19: the brand lookup has completed before the summary and the news
\* lookups start; both are keyed on canonical_name as the brand lookup left
\* it (the brand's name if the lookup succeeded, the input name otherwise);
\* the industry classifier runs after all other stages, and only when the
\* summary is non-empty.
C19_BrandBeforeLookups ==
    LET brand == CallIndex("fetch_brandfetch_data_enhanced")
        summary == CallIndex("fetch_duckduckgo_summary")
        news == CallIndex("fetch_news_articles_enhanced")
        industry == CallIndex("infer_industry")
    IN  /\ pc \in {"summary", "news", "industry", "return", "done"}
              => (brand # 0 <=> Truthy(domain))
        /\ summary # 0 => /\ brand < summary
                          /\ calls[summary].name = NameAfterBrand
        /\ news # 0 => /\ brand < news
                       /\ summary # 0 /\ summary < news
                       /\ calls[news].name = NameAfterBrand
        /\ industry # 0 => /\ industry = Len(calls)
                           /\ news # 0 /\ summary # 0
                           /\ Truthy(results.summary)
                           /\ calls[industry].name = NameAfterBrand
        /\ pc \in {"return", "done"} => (industry # 0 <=> Truthy(results.summary))

\* the brand lookup renamed the company, and summary, news and classifier
\* were all keyed on the new name
C19_Witness ==
    /\ Done
    /\ WasCalled("fetch_brandfetch_data_enhanced")
    /\ NameAfterBrand # arg.company_name
    /\ ret.canonical_name = NameAfterBrand
    /\ WasCalled("infer_industry")
    /\ CallsOf("fetch_duckduckgo_summary")[1].name = NameAfterBrand
    /\ CallsOf("fetch_news_articles_enhanced")[1].name = NameAfterBrand

(***************************************************************************)
(* SpecUrl: one call of a URL helper on a string put together from a        *)
(* scheme, a host and a path                                               *)
(***************************************************************************)
InitUrl ==
    LET Schemes == {Empty, <<"h","t","t","p">>, <<"h","t","t","p","s">>, <<"H","t","t","p","s">>, <<"f","t","p">>}
        Hosts == {Empty, <<"a",".","i","o">>, <<"w","w","w",".","E","x","a","m","p","l","e",".","c","o","m">>, <<"x">>, <<" ","b",".","c","o"," ">>}
        Paths == {Empty, <<"/">>, <<"/","p","a","t","h">>}
        UrlOf(scheme, host, path) ==
            (IF scheme = Empty THEN Empty ELSE scheme \o <<":","/","/">>) \o host \o path
    IN  /\ Idle
        /\ arg \in {[fn |-> fn, scheme |-> s, host |-> h, path |-> p,
                     url |-> UrlOf(s, h, p)] :
                       fn \in {"api_helpers.is_valid_url", "validation.is_valid_url",
                               "api_helpers.extract_domain", "parser_utils.extract_domain"},
                       s \in Schemes, h \in Hosts, p \in Paths}
        /\ ret = NotCalled

CallIsValidUrl ==
    /\ ret = NotCalled
    /\ arg.fn = "api_helpers.is_valid_url"
    /\ ret' = [value |-> is_valid_url(arg.url)]
    /\ UNCHANGED arg
    /\ IdleUnchanged

CallValidationIsValidUrl ==
    /\ ret = NotCalled
    /\ arg.fn = "validation.is_valid_url"
    /\ ret' = [value |-> validation_is_valid_url(arg.url)]
    /\ UNCHANGED arg
    /\ IdleUnchanged

CallExtractDomain ==
    /\ ret = NotCalled
    /\ arg.fn = "api_helpers.extract_domain"
    /\ ret' = [value |-> extract_domain(arg.url)]
    /\ UNCHANGED arg
    /\ IdleUnchanged

CallParserExtractDomain ==
    /\ ret = NotCalled
    /\ arg.fn = "parser_utils.extract_domain"
    /\ ret' = [value |-> parser_utils_extract_domain(arg.url)]
    /\ UNCHANGED arg
    /\ IdleUnchanged

NextUrl ==
    CallIsValidUrl \/ CallValidationIsValidUrl \/ CallExtractDomain
        \/ CallParserExtractDomain

SpecUrl == InitUrl /\ [][NextUrl]_vars

\* the string was built with scheme http or https (in any case) and a host
HttpUrl ==
    /\ Lower(arg.scheme) \in {<<"h","t","t","p">>, <<"h","t","t","p","s">>}
    /\ arg.host # Empty

\* C17: every is_valid_url of the repository returns true if and only if the
\* string is a URL with scheme http or https and a non-empty host; false for
\* empty, scheme-less, host-less and other-scheme (ftp) strings.
C17_ValidIffHttpAndHost ==
    Called /\ arg.fn \in {"api_helpers.is_valid_url", "validation.is_valid_url"}
        => (ret.value <=> HttpUrl)

\* C18: api_helpers.extract_domain returns the host unmodified (case and
\* "www." kept) for a valid URL, else the trimmed string when it contains a
\* "." and no "/", else the empty string; parser_utils.extract_domain
\* returns the host lowercased and without "www.", so the two differ on
\* "https://www.example.com/path" ("www.example.com" against "example.com").
C18_ExtractDomain ==
    /\ Called /\ arg.fn = "api_helpers.extract_domain" =>
          ret.value = IF HttpUrl THEN arg.host
                      ELSE IF Contains(<<".">>, arg.url) /\ ~Contains(<<"/">>, arg.url)
                      THEN Strip(arg.url)
                      ELSE Empty
    /\ Called /\ arg.fn = "parser_utils.extract_domain" /\ arg.scheme # Empty
              /\ arg.host # Empty =>
          ret.value = Lower(Strip(Replace(arg.host, <<"w","w","w",".">>, Empty)))
    /\ extract_domain(<<"h","t","t","p","s",":","/","/","w","w","w",".","e","x","a","m","p","l","e",".","c","o","m","/","p","a","t","h">>) = <<"w","w","w",".","e","x","a","m","p","l","e",".","c","o","m">>
    /\ parser_utils_extract_domain(<<"h","t","t","p","s",":","/","/","w","w","w",".","e","x","a","m","p","l","e",".","c","o","m","/","p","a","t","h">>) = <<"e","x","a","m","p","l","e",".","c","o","m">>

\* a valid URL whose host has capitals and "www." went through
\* api_helpers.extract_domain
C18_Witness ==
    /\ Called
    /\ arg.fn = "api_helpers.extract_domain"
    /\ arg.url = <<"h","t","t","p","s",":","/","/","w","w","w",".","E","x","a","m","p","l","e",".","c","o","m","/","p","a","t","h">>
    /\ ret.value = <<"w","w","w",".","E","x","a","m","p","l","e",".","c","o","m">>

(***************************************************************************)
(* SpecDiscover: the website step of research_company_thoroughly (lines     *)
(* 506-509) with its call of find_official_website                          *)
(***************************************************************************)
\* ddg: what the knowledge provider does; world[n]: what the search provider
\* does for the n-th strategic query
InitDiscover ==
    LET Found(link1, link2) ==
            [kind |-> "json", organic |-> <<[title |-> <<"t">>, link |-> link1],
                                            [title |-> <<"u">>, url |-> link2]>>]
        SearchBodies == {BadJson, Found(<<"z","z">>, <<"y","y">>), Found(<<"z","z">>, <<"/","c",".","a","i">>),
                         Found(<<"A","B",".","x">>, <<"/","c",".","a","i">>)}
    IN  /\ Idle
        /\ arg \in [fn : {"find_official_website"},
                     company_name : {<<"a","b">>, <<"a",".","i","o">>, <<"h","t","t","p",".","x">>},
                     website : {Empty, <<"x">>},
                     ddg : StageReplies(OfficialBodies, BadJson),
                     key : BOOLEAN,
                     world : [1..StrategicQueries -> StageReplies(SearchBodies, BadJson)]]
        /\ ret = NotCalled

\* found: the call of find_official_website, NotCalled if none was made
DiscoverWebsite ==
    /\ ret = NotCalled
    /\ arg.fn = "find_official_website"
    /\ ret' = IF ~Truthy(arg.website)
              THEN LET r == find_official_website(arg.company_name, arg.ddg,
                                                  arg.key, arg.world)
                   IN  [website |-> r.value, found |-> r]
              ELSE [website |-> arg.website, found |-> NotCalled]
    /\ UNCHANGED arg
    /\ IdleUnchanged

SpecDiscover == InitDiscover /\ [][DiscoverWebsite]_vars

\* the URL in the knowledge provider's answer: the first related topic's,
\* else the abstract's, else ""
UrlFromSearch ==
    LET k == FirstOk(arg.ddg, RETRY_COUNT) IN
    IF k = 0 \/ arg.ddg[k].body.kind # "json" THEN Empty
    ELSE LET data == arg.ddg[k].body
             first == IF data.RelatedTopics = <<>> THEN Empty
                      ELSE Get(data.RelatedTopics[1], "FirstURL", Empty)
         IN  OrElse(first, data.AbstractURL)

\* the first strategic-context source that contains the company name (in any
\* letter case) or one of .com/.io/.co/.ai, else ""
UrlFromResults ==
    LET items == Contribution(1).value \o Contribution(2).value
        Fits(i) == \/ Contains(Lower(arg.company_name), Lower(items[i].source))
                   \/ \E tld \in {<<".","c","o","m">>, <<".","i","o">>, <<".","c","o">>, <<".","a","i">>} :
                         Contains(tld, items[i].source)
    IN  IF \E i \in 1..Len(items) : Fits(i)
        THEN items[CHOOSE i \in 1..Len(items) :
                       Fits(i) /\ \A j \in 1..(i - 1) : ~Fits(j)].source
        ELSE Empty

\* C16: discovery runs only when no website is given, and a given website is
\* kept; find_official_website takes the knowledge provider's URL (related
\* topic, then abstract); only if there is none, the company name as a
\* validated bare domain; only if that gives nothing, the first fitting
\* strategic-context source; otherwise "".
C16_DiscoveryOrder ==
    Called =>
        /\ Truthy(arg.website) => ret.found = NotCalled /\ ret.website = arg.website
        /\ ~Truthy(arg.website) =>
              LET named == WebsiteFromName(arg.company_name) IN
              /\ ret.found # NotCalled
              /\ ret.website =
                    OrElse(UrlFromSearch, OrElse(named, UrlFromResults))
              /\ IsPrefix(<<"ddg">>, ret.found.steps)
              /\ In("name", ret.found.steps) => UrlFromSearch = Empty
              /\ In("strategic", ret.found.steps) \/ ret.found.search_attempts > 0
                    => UrlFromSearch = Empty /\ named = Empty

\* the knowledge provider gave no URL, the name with a dot did not validate,
\* and the second search result was the first to fit
C16_Witness ==
    /\ Called
    /\ ~Truthy(arg.website)
    /\ UrlFromSearch = Empty
    /\ arg.company_name = <<"h","t","t","p",".","x">>
    /\ ret.found.steps = <<"ddg", "name", "strategic">>
    /\ ret.found.via = "strategic"
    /\ ret.website = <<"h","t","t","p","s",":","/","/","c",".","a","i">>
    /\ Contribution(1).value # <<>>
    /\ Contribution(1).value[1].source = <<"h","t","t","p","s",":","/","/","z","z">>

(***************************************************************************)
(* SpecTwice: two requests run research_company_thoroughly on the same      *)
(* input against the same upstream answers, their steps interleaved.  Each  *)
(* variable of the call is indexed by request; the lists of a record are    *)
(* objects in `heap`, and the record holds their addresses.                 *)
(***************************************************************************)
Requests == {1, 2}

\* address of a list object created now (a `[]` literal, an adapter's list)
NewListShared(h) == 1
NewList(h) == Len(h) + 1

\* the record of request r with its lists read from the heap
View(r) ==
    IF IsEmptyDict(results[r]) THEN EmptyDict
    ELSE [results[r] EXCEPT !.news = heap[@], !.sources_used = heap[@]]

\* every provider answers each attempt of each request alike: a provider
\* either works or is down
InitTwice ==
    LET Up(body) == {[k \in 1..WorldAttempts |-> Ok(body)]}
        Always(body) == Up(body) \cup {[k \in 1..WorldAttempts |-> Err("timeout")]}
    IN  /\ arg \in
              [fn : {"research_company_thoroughly"},
               company_name : {<<"a","b">>},
               website : {Empty, <<"h","t","t","p","s",":","/","/","w","w","w",".","a",".","c","o","m","/","x">>},
               key : BOOLEAN,
               official : Always([kind |-> "json", RelatedTopics |-> <<>>,
                                  AbstractURL |-> <<"h","t","t","p",":","/","/","b",".","c","o">>]),
               search : Up([kind |-> "json",
                                organic |-> <<[title |-> <<"t">>, link |-> <<"/","c",".","a","i">>]>>]),
               brand : Up([kind |-> "json", name |-> <<"N">>,
                               logos |-> <<[url |-> <<"L">>, src |-> Empty]>>]),
               page : Up([kind |-> "html", title |-> <<"T">>, description |-> Empty,
                              h1s |-> <<>>, first_p |-> <<"p">>, main |-> Empty]),
               summary : Always([kind |-> "json", AbstractText |-> <<"a"," ","t","e","c","h"," ","f","i","r","m">>,
                                 Heading |-> Empty, RelatedTopics |-> <<>>]),
               news : Always([kind |-> "json",
                              results |-> <<RawArticle(<<"A">>, Empty, <<"1">>, Empty)>>,
                              articles |-> <<>>]),
               chat : Up([kind |-> "json",
                              data |-> [choices |-> <<[message |-> [content |-> <<"I","T">>]]>>]])]
        /\ pc = [r \in Requests |-> "call"]
        /\ results = [r \in Requests |-> EmptyDict]
        /\ website = [r \in Requests |-> Empty]
        /\ domain = [r \in Requests |-> Empty]
        /\ website_content = [r \in Requests |-> Empty]
        /\ ret = [r \in Requests |-> NotCalled]
        /\ calls = <<>>
        /\ heap = <<>>

\* lines 495-504: the dict and its two lists are made anew
BeginRequest(r) ==
    /\ pc[r] = "call"
    /\ LET news == NewList(heap)
           with_news == Append(heap, <<>>)
           sources_used == NewList(with_news)
       IN  /\ heap' = Append(with_news, <<>>)
           /\ results' = [results EXCEPT ![r] =
                            [InitialResults(arg.company_name, arg.website)
                                EXCEPT !.news = news, !.sources_used = sources_used]]
    /\ website' = [website EXCEPT ![r] = arg.website]
    /\ pc' = [pc EXCEPT ![r] = "discover"]
    /\ UNCHANGED <<domain, website_content, calls, arg, ret>>

\* lines 506-546 for request r at pc[r]: the record after the stage (lists by
\* value), the locals, and the position reached
StageOf(r) ==
    LET v == View(r)
        canonical == v.canonical_name
        Out(res, site, dom, content, next, raised) ==
            [results |-> res, website |-> site, domain |-> dom,
             website_content |-> content, next |-> Goto(next, raised)]
    IN  CASE pc[r] = "discover" ->
               IF ~Truthy(website[r])
               THEN LET f == find_official_website(
                                 arg.company_name, arg.official, arg.key,
                                 [n \in 1..StrategicQueries |-> arg.search])
                    IN  Out([v EXCEPT !.website = f.value], f.value,
                            IF Truthy(f.value) THEN extract_domain(f.value) ELSE Empty,
                            website_content[r], "brand", f.raised)
               ELSE Out(v, website[r], extract_domain(website[r]),
                        website_content[r], "brand", FALSE)
          [] pc[r] = "brand" ->
               IF Truthy(domain[r])
               THEN LET b == fetch_brandfetch_data_enhanced(
                                 domain[r], arg.key,
                                 [d \in Range(Variations(CleanDomain(domain[r])))
                                     |-> arg.brand])
                    IN  Out(BrandStage(v, b.value, arg.company_name), website[r],
                            domain[r], website_content[r], "scrape", b.raised)
               ELSE Out(v, website[r], domain[r], website_content[r], "scrape", FALSE)
          [] pc[r] = "scrape" ->
               IF Truthy(website[r])
               THEN LET s == scrape_website_content(website[r], arg.page)
                    IN  Out(ContentStage(v, s.value), website[r], domain[r], s.value,
                            "summary", s.raised)
               ELSE Out(v, website[r], domain[r], website_content[r], "summary", FALSE)
          [] pc[r] = "summary" ->
               LET d == fetch_duckduckgo_summary(canonical, arg.summary)
               IN  Out(SummaryStage(v, d.value, website_content[r]), website[r],
                       domain[r], website_content[r], "news", d.raised)
          [] pc[r] = "news" ->
               LET n == fetch_news_articles_enhanced(
                            canonical, domain[r], NewsLimit, arg.key,
                            [q \in NewsQueries(canonical, domain[r]) |-> arg.news])
               IN  Out(NewsStage(v, n.value), website[r], domain[r],
                       website_content[r], "industry", n.raised)
          [] pc[r] = "industry" ->
               IF Truthy(v.summary)
               THEN LET i == infer_industry(canonical, v.summary, arg.key, arg.chat)
                    IN  Out(IndustryStage(v, i.value), website[r], domain[r],
                            website_content[r], "return", i.raised)
               ELSE Out(v, website[r], domain[r], website_content[r], "return", FALSE)

\* one stage of request r: `sources_used` is appended to in place (lines 519,
\* 526, 532, 535, 541, 546), `news` is bound to the adapter's list (line 540)
Stage(r) ==
    /\ pc[r] \in {"discover", "brand", "scrape", "summary", "news", "industry"}
    /\ \E out \in {StageOf(r)} :
       LET appended == [heap EXCEPT ![results[r].sources_used] = out.results.sources_used]
           rebound == out.results.news # View(r).news
       IN  /\ heap' = IF rebound THEN Append(appended, out.results.news) ELSE appended
           /\ results' = [results EXCEPT ![r] =
                            [out.results EXCEPT
                                !.news = IF rebound THEN NewList(appended)
                                         ELSE results[r].news,
                                !.sources_used = results[r].sources_used]]
           /\ website' = [website EXCEPT ![r] = out.website]
           /\ domain' = [domain EXCEPT ![r] = out.domain]
           /\ website_content' = [website_content EXCEPT ![r] = out.website_content]
           /\ pc' = [pc EXCEPT ![r] = out.next]
    /\ UNCHANGED <<calls, arg, ret>>

\* line 548
ReturnRecord(r) ==
    /\ pc[r] = "return"
    /\ ret' = [ret EXCEPT ![r] = results[r]]
    /\ pc' = [pc EXCEPT ![r] = "done"]
    /\ UNCHANGED <<results, website, domain, website_content, calls, arg, heap>>

NextTwice == \E r \in Requests : BeginRequest(r) \/ Stage(r) \/ ReturnRecord(r)

SpecTwice == InitTwice /\ [][NextTwice]_vars

\* the list objects request r holds
ListsOf(r) ==
    IF IsEmptyDict(results[r]) THEN {}
    ELSE {results[r].news, results[r].sources_used}

\* C15: two requests with the same input and the same upstream answers
\* return records equal in every field; no step of one request changes the
\* record of the other, the sources_used and news lists included, and the
\* two records share no list.
C15_RerunEqualNothingShared ==
    /\ [](pc[1] = "done" /\ pc[2] = "done" => View(1) = View(2))
    /\ [](ListsOf(1) \cap ListsOf(2) = {})
    /\ [][\A r \in Requests : pc'[r] = pc[r] => View(r)' = View(r)]_vars

\* both requests returned a record with three sources and a news article,
\* each in lists of its own
C15_Witness ==
    /\ pc = [r \in Requests |-> "done"]
    /\ Len(View(1).sources_used) >= 3
    /\ View(2).news # <<>>
    /\ ListsOf(1) # ListsOf(2)

(***************************************************************************)
(* Provenance of the returned record                                       *)
(***************************************************************************)
\* what the brand lookup of this run returned, {} when it did not run
BrandResult ==
    IF WasCalled("fetch_brandfetch_data_enhanced")
    THEN CallsOf("fetch_brandfetch_data_enhanced")[1].out
    ELSE EmptyDict

\* C21: in every returned record, summary is non-empty iff exactly one of
\* "DuckDuckGo" / "Website Summary" is in sources_used; "Website Summary"
\* comes with "Website Content"; "AI Industry Classification" is there iff
\* summary is non-empty, whatever the classifier answered; "NewsData" is
\* there iff news is non-empty, and news has at most 5 items; "Brandfetch" is
\* there iff the brand lookup returned a non-empty result.
C21_ProvenanceConsistent ==
    Done =>
        LET used == ret.sources_used IN
        /\ Truthy(ret.summary) <=> (In("DuckDuckGo", used) # In("Website Summary", used))
        /\ In("Website Summary", used) => In("Website Content", used)
        /\ In("AI Industry Classification", used) <=> Truthy(ret.summary)
        /\ In("NewsData", used) <=> ret.news # <<>>
        /\ Len(ret.news) <= NewsLimit
        /\ In("Brandfetch", used) <=> ~IsEmptyDict(BrandResult)

\* the brand lookup ran and returned nothing, the summary is the website
\* text, the classifier answered "Unknown" and is still listed, and the two
\* news queries gave seven distinct titles of which five were kept
C21_Witness ==
    /\ Done
    /\ WasCalled("fetch_brandfetch_data_enhanced")
    /\ IsEmptyDict(BrandResult)
    /\ ret.sources_used = <<"Website Content", "Website Summary", "NewsData",
                            "AI Industry Classification">>
    /\ ret.industry = Unknown
    /\ Len(ret.news) = NewsLimit
    /\ ret.news[1].title = <<"A">>
    /\ ret.news[NewsLimit].title = <<"e">>

(***************************************************************************)
(* Outbound requests of one run                                            *)
(***************************************************************************)
\* the most _safe_get / _safe_post calls a stage may make: discovery one
\* knowledge query and two search queries, the brand lookup the cleaned
\* domain and three variants, the news lookup two queries
MostRequests ==
    [find_official_website |-> 3, fetch_brandfetch_data_enhanced |-> 4,
     scrape_website_content |-> 1, fetch_duckduckgo_summary |-> 1,
     fetch_news_articles_enhanced |-> 2, infer_industry |-> 1]

\* C22: whatever the providers do, a run ends after a bounded number of
\* outbound attempts: every _safe_get / _safe_post call makes 1 or 2 attempts
\* and sleeps exactly once between an attempt and the next (so never after
\* the last attempt, failed or successful); no stage makes more calls than
\* MostRequests allows; no stage is entered twice (each adapter is logged at
\* most once and every step moves to a later one of the nine positions, so
\* a run has at most eight steps).
C22_BoundedAttemptsNoReentry ==
    /\ [](\A i \in 1..Len(calls) :
            /\ Len(calls[i].sent) <= MostRequests[calls[i].fn]
            /\ \A k \in 1..Len(calls[i].sent) :
                  /\ calls[i].sent[k].attempts \in 1..2
                  /\ Len(calls[i].sent[k].sleeps) = calls[i].sent[k].attempts - 1)
    /\ [](\A i, j \in 1..Len(calls) : i # j => calls[i].fn # calls[j].fn)
    /\ [][StageIndex[pc'] > StageIndex[pc]]_vars

\* the knowledge query and the first search query failed twice, the second
\* search query answered at once; both brand lookups, the website fetch and
\* both news queries were retried; the classifier answered at once
C22_Witness ==
    /\ Done
    /\ Len(calls) = 6
    /\ CallsOf("find_official_website")[1].sent
         = << [attempts |-> 2, sleeps |-> <<RETRY_BACKOFF_MS>>],
              [attempts |-> 2, sleeps |-> <<RETRY_BACKOFF_MS>>],
              [attempts |-> 1, sleeps |-> <<>>] >>
    /\ Len(CallsOf("fetch_brandfetch_data_enhanced")[1].sent) = 2
    /\ CallsOf("fetch_brandfetch_data_enhanced")[1].attempts = 4
    /\ CallsOf("scrape_website_content")[1].attempts = 2
    /\ Len(CallsOf("fetch_news_articles_enhanced")[1].sent) = 2
    /\ CallsOf("fetch_news_articles_enhanced")[1].attempts = 4
    /\ CallsOf("infer_industry")[1].sent = <<[attempts |-> 1, sleeps |-> <<>>]>>

====
